---------------------------- MODULE Spec2Model ----------------------------
(***************************************************************************)
(* Conference assistant backend (python-backend/api.py, main.py).          *)
(*                                                                         *)
(* Spec        the dispatcher of api.py: the conversation store and        *)
(*             chat_endpoint, one asyncio task per request, interleaved at *)
(*             every await of a db_client call.                            *)
(*                                                                         *)
(* A text is a sequence of strings.  A user message is a sequence of       *)
(* one-character strings, so that lower(), "in", split() and strip() are   *)
(* computed on characters; the literal parts of a formatted reply are kept *)
(* as one string each and an f-string is the concatenation of its parts.   *)
(* None is the string "<None>", True/False are "True"/"False": every field *)
(* of the program state then holds a string or a text.                     *)
(***************************************************************************)
EXTENDS Naturals, Sequences, FiniteSets, TLC

VARIABLES
    conversations,  \* the module-level dict: conversation id -> session object
    heap,           \* the session objects, by address (a dict value is a reference)
    task,           \* per request task: position in chat_endpoint and its locals
    response,       \* the response most recently returned to a client
    started,        \* number of requests received so far
    agent,          \* main.py: the call of an intent router, its inputs and outcome
    loader          \* main.py: the call of load_user_context

vars == <<conversations, heap, task, response, started, agent, loader>>

(***************************************************************************)
(* Bounds                                                                  *)
(***************************************************************************)
MaxTurns == 2

\* the request tasks that may be in flight together; a request is served by the
\* first free one (the tasks are interchangeable)
Tasks == {1, 2}

(***************************************************************************)
(* Python values                                                           *)
(***************************************************************************)
None == "<None>"

Truthy(x) == x \notin {None, "", "False"}

Get(d, k, default) == IF k \in DOMAIN d THEN d[k] ELSE default

UpperCase ==
    <<"A","B","C","D","E","F","G","H","I","J","K","L","M",
      "N","O","P","Q","R","S","T","U","V","W","X","Y","Z">>

LowerCase ==
    <<"a","b","c","d","e","f","g","h","i","j","k","l","m",
      "n","o","p","q","r","s","t","u","v","w","x","y","z">>

LowerChar(c) ==
    IF \E i \in 1..26 : UpperCase[i] = c
    THEN LowerCase[CHOOSE i \in 1..26 : UpperCase[i] = c]
    ELSE c

\* str.lower()
Lower(s) == [i \in 1..Len(s) |-> LowerChar(s[i])]

\* k in s
Contains(s, k) ==
    \/ k = <<>>
    \/ \E i \in 0..(Len(s) - Len(k)) :
          s[i + 1] = k[1] /\ \A j \in 2..Len(k) : s[i + j] = k[j]

WhiteSpace == {" ", "\n", "\t", "\r"}

RECURSIVE LStrip(_)
LStrip(s) ==
    IF s # <<>> /\ Head(s) \in WhiteSpace THEN LStrip(Tail(s)) ELSE s

RECURSIVE RStrip(_)
RStrip(s) ==
    IF s # <<>> /\ s[Len(s)] \in WhiteSpace
    THEN RStrip(SubSeq(s, 1, Len(s) - 1))
    ELSE s

\* str.strip()
Strip(s) == RStrip(LStrip(s))

\* index of the first occurrence of character c in s, 0 when there is none
FirstIndex(s, c) ==
    IF \E i \in 1..Len(s) : s[i] = c
    THEN CHOOSE i \in 1..Len(s) : s[i] = c /\ \A j \in 1..(i - 1) : s[j] # c
    ELSE 0

\* s.split(c): the pieces of s between the occurrences of character c
RECURSIVE Split(_, _)
Split(s, c) ==
    LET i == FirstIndex(s, c)
    IN  IF i = 0 THEN <<s>>
        ELSE <<SubSeq(s, 1, i - 1)>> \o Split(SubSeq(s, i + 1, Len(s)), c)


(***************************************************************************)
(* Data model                                                              *)
(***************************************************************************)
\* AirlineAgentContext(): shared_types.py, every field unset
AirlineAgentContext ==
    [passenger_name |-> None, customer_id |-> None, account_number |-> None,
     customer_email |-> None, is_conference_attendee |-> None,
     conference_name |-> None, user_company_name |-> None,
     user_location |-> None, user_registration_id |-> None,
     user_conference_package |-> None, user_primary_stream |-> None,
     user_secondary_stream |-> None]

\* str(uuid.uuid4()): an identifier no request has named and the store does not hold
NewUuid == "uuid-" \o ToString(Cardinality(DOMAIN conversations) + 1)

\* get_or_create_conversation without the "not in conversations" test
get_or_create_conversation_overwrite(conversation_id, account_number) ==
    LET cid == IF ~Truthy(conversation_id) THEN NewUuid ELSE conversation_id
        ref == Len(heap) + 1
    IN  [conversations |-> (cid :> ref) @@ conversations,
         heap |-> Append(heap,
             [id |-> cid,
              context |-> AirlineAgentContext,
              current_agent |-> "Triage Agent",
              messages |-> <<>>,
              events |-> <<>>,
              account_number |-> account_number]),
         ref |-> ref]

\* get_or_create_conversation building the new session from a shared template:
\* the message list and handler of the session created before it
get_or_create_conversation_shared(conversation_id, account_number) ==
    LET cid == IF ~Truthy(conversation_id) THEN NewUuid ELSE conversation_id
    IN  IF cid \notin DOMAIN conversations
        THEN LET ref == Len(heap) + 1
             IN  [conversations |-> (cid :> ref) @@ conversations,
                  heap |-> Append(heap,
                      [id |-> cid,
                       context |-> AirlineAgentContext,
                       current_agent |-> IF heap = <<>> THEN "Triage Agent"
                                         ELSE heap[Len(heap)].current_agent,
                       messages |-> IF heap = <<>> THEN <<>>
                                    ELSE heap[Len(heap)].messages,
                       events |-> <<>>,
                       account_number |-> account_number]),
                  ref |-> ref]
        ELSE [conversations |-> conversations,
              heap |-> heap,
              ref |-> conversations[cid]]

\* get_or_create_conversation: the store, the objects and the reference returned
get_or_create_conversation(conversation_id, account_number) ==
    LET cid == IF ~Truthy(conversation_id) THEN NewUuid ELSE conversation_id
    IN  IF cid \notin DOMAIN conversations
        THEN LET ref == Len(heap) + 1
             IN  [conversations |-> (cid :> ref) @@ conversations,
                  heap |-> Append(heap,
                      [id |-> cid,
                       context |-> AirlineAgentContext,
                       current_agent |-> "Triage Agent",
                       messages |-> <<>>,
                       events |-> <<>>,
                       account_number |-> account_number]),
                  ref |-> ref]
        ELSE [conversations |-> conversations,
              heap |-> heap,
              ref |-> conversations[cid]]

(***************************************************************************)
(* The external data collaborator (database.db_client)                     *)
(***************************************************************************)
\* user records the identity lookups may return; the second lacks the
\* optional keys, so that the .get defaults apply
Users ==
    { [name |-> "Asha", id |-> "U1", account_number |-> "R1",
       email |-> "asha@example.org", is_conference_attendee |-> "False",
       conference_name |-> "Tech Summit"],
      [name |-> "Ravi", id |-> "U2", account_number |-> "R2"] }

\* outcome of get_user_by_registration_id / get_user_by_qr_code
LookupOutcomes ==
    {[kind |-> "none"], [kind |-> "raise"]} \cup
    {[kind |-> "user", user |-> u] : u \in Users}

\* outcome of add_business: the success flag, or a fault
AddOutcomes == {"True", "False", "raise"}

(***************************************************************************)
(* chat_endpoint: structured business submission                           *)
(***************************************************************************)
FormMarker ==
    <<"I"," ","w","a","n","t"," ","t","o"," ","a","d","d"," ","m","y"," ","b","u","s","i","n","e","s","s"," ","w","i","t","h"," ","t","h","e"," ","f","o","l","l","o","w","i","n","g"," ","d","e","t","a","i","l","s",":">>

\* display label -> database field name
field_mapping ==
    <<<<<<"C","o","m","p","a","n","y"," ","N","a","m","e">>, "companyName">>,
      <<<<"I","n","d","u","s","t","r","y"," ","S","e","c","t","o","r">>, "industrySector">>,
      <<<<"S","u","b","-","S","e","c","t","o","r">>, "subSector">>,
      <<<<"L","o","c","a","t","i","o","n">>, "location">>,
      <<<<"P","o","s","i","t","i","o","n"," ","T","i","t","l","e">>, "positionTitle">>,
      <<<<"L","e","g","a","l"," ","S","t","r","u","c","t","u","r","e">>, "legalStructure">>,
      <<<<"E","s","t","a","b","l","i","s","h","m","e","n","t"," ","Y","e","a","r">>, "establishmentYear">>,
      <<<<"P","r","o","d","u","c","t","s","/","S","e","r","v","i","c","e","s">>, "productsOrServices">>,
      <<<<"B","r","i","e","f"," ","D","e","s","c","r","i","p","t","i","o","n">>, "briefDescription">>,
      <<<<"W","e","b","s","i","t","e">>, "web">>>>

\* the loop over lines[1:]: split on the first colon, strip, map the label
RECURSIVE ParseLines(_, _)
ParseLines(lines, business_data) ==
    IF lines = <<>> THEN business_data
    ELSE LET line  == Head(lines)
             i     == FirstIndex(line, ":")
             key   == Strip(SubSeq(line, 1, i - 1))
             value == Strip(SubSeq(line, i + 1, Len(line)))
             hit   == {k \in 1..Len(field_mapping) : field_mapping[k][1] = key}
         IN  IF i # 0 /\ hit # {}
             THEN ParseLines(Tail(lines),
                      (field_mapping[CHOOSE k \in hit : TRUE][2] :> value)
                          @@ business_data)
             ELSE ParseLines(Tail(lines), business_data)

\* business_data of a submission: the recognized labels of every line but the first
ParseBusinessData(message) == ParseLines(Tail(Split(message, "\n")), <<>>)

SuccessReply(business_data) ==
    <<"Successfully added your business '">>
    \o Get(business_data, "companyName", <<"Unknown">>)
    \o <<"' to the business directory! Other attendees can now find and connect with your business for networking opportunities.">>

IssueReply ==
    <<"I encountered an issue adding your business. Please try again or contact support.">>

\* str(e) of the fault the collaborator raised
FaultText == "database unavailable"

ErrorReply == <<"Error adding business: ", FaultText>>

RejectReply ==
    <<"I couldn't process your business information. Please make sure all required fields are filled out.">>

(***************************************************************************)
(* chat_endpoint: top-level keyword classification                         *)
(***************************************************************************)
ScheduleWords ==
    <<<<"s","c","h","e","d","u","l","e">>,
      <<"s","e","s","s","i","o","n">>,
      <<"s","p","e","a","k","e","r">>,
      <<"t","i","m","e">>,
      <<"r","o","o","m">>,
      <<"t","r","a","c","k">>,
      <<"w","h","e","n">>>>

NetworkingWords ==
    <<<<"n","e","t","w","o","r","k">>,
      <<"b","u","s","i","n","e","s","s">>,
      <<"a","t","t","e","n","d","e","e">>,
      <<"c","o","n","n","e","c","t">>,
      <<"c","o","m","p","a","n","y">>,
      <<"f","i","n","d"," ","p","e","o","p","l","e">>>>

\* any(word in message_lower for word in words)
AnyWordIn(words, message_lower) ==
    \E k \in 1..Len(words) : Contains(message_lower, words[k])

ScheduleResponse ==
    <<"I can help you find conference schedule information. What specific session, speaker, or time are you looking for?">>

NetworkingResponse ==
    <<"I can help you connect with other attendees and explore business opportunities. Are you looking for specific people, companies, or would you like to add your own business?">>

TriageResponse ==
    <<"Hello! I'm your conference assistant. I can help you with:\n\n* **Conference Schedule** - Find sessions, speakers, and timings\n* **Networking** - Connect with attendees and businesses\n\nWhat would you like to know about the conference?">>

\* Route testing the networking keyword set before the schedule keyword set
Route_networkingfirst(message) ==
    LET message_lower == Lower(message)
    IN  IF AnyWordIn(NetworkingWords, message_lower)
        THEN [agent_name |-> "Networking Agent", response |-> NetworkingResponse]
        ELSE IF AnyWordIn(ScheduleWords, message_lower)
        THEN [agent_name |-> "Schedule Agent", response |-> ScheduleResponse]
        ELSE [agent_name |-> "Triage Agent", response |-> TriageResponse]

\* the simple routing logic: the handler name and its reply
Route(message) ==
    LET message_lower == Lower(message)
    IN  IF AnyWordIn(ScheduleWords, message_lower)
        THEN [agent_name |-> "Schedule Agent", response |-> ScheduleResponse]
        ELSE IF AnyWordIn(NetworkingWords, message_lower)
        THEN [agent_name |-> "Networking Agent", response |-> NetworkingResponse]
        ELSE [agent_name |-> "Triage Agent", response |-> TriageResponse]


(***************************************************************************)
(* The messages of the requests                                            *)
(***************************************************************************)
MsgFormAcme ==
    <<"I"," ","w","a","n","t"," ","t","o"," ","a","d","d"," ","m","y"," ","b","u","s","i","n","e","s","s"," ","w","i","t","h"," ","t","h","e"," ","f","o","l","l","o","w","i","n","g"," ","d","e","t","a","i","l","s",":","\n","C","o","m","p","a","n","y"," ","N","a","m","e",":"," ","A","c","m","e">>

\* a submission whose only line has a label field_mapping does not hold, and
\* holds a word of the schedule keyword set
MsgFormNoLabel ==
    <<"I"," ","w","a","n","t"," ","t","o"," ","a","d","d"," ","m","y"," ","b","u","s","i","n","e","s","s"," ","w","i","t","h"," ","t","h","e"," ","f","o","l","l","o","w","i","n","g"," ","d","e","t","a","i","l","s",":","\n","R","o","o","m",":"," ","B","2">>

MsgNetworking ==
    <<"F","i","n","d"," ","a"," ","C","o","m","p","a","n","y">>

MsgBoth ==
    <<"b","u","s","i","n","e","s","s"," ","t","r","a","c","k">>

MsgHello ==
    <<"H","e","l","l","o">>

ApiMessages ==
    {MsgFormAcme, MsgFormNoLabel, MsgNetworking, MsgBoth, MsgHello}

\* what chat_endpoint computes from request.message alone, for each message
\* of the requests: the marker test, the decoded business_data and the
\* outcome of the simple routing logic
MessageAnalysis ==
    [message \in ApiMessages |->
        [marker |-> Contains(message, FormMarker),
         business_data |-> ParseBusinessData(message),
         route |-> Route(message)]]

(***************************************************************************)
(* chat_endpoint: the steps of one request                                 *)
(***************************************************************************)
\* the task's locals before a request
IdleTask ==
    [pc |-> "idle",
     request |-> [message |-> <<>>, conversation_id |-> None, account_number |-> None],
     conversation |-> 0,
     business_data |-> <<>>,
     calls |-> <<>>]

NoResponse == [status |-> "none"]

\* Respond showing the first two entries of the history instead of the last two
Respond_firsttwo(h, t) ==
    LET c   == h[t.conversation]
        ctx == c.context
        n   == Len(c.messages)
    IN  [heap |-> h,
         task |-> IdleTask,
         response |->
             [status |-> "200",
              conversation_id |-> c.id,
              current_agent |-> c.current_agent,
              messages |-> IF n >= 2 THEN SubSeq(c.messages, 1, 2)
                           ELSE c.messages,
              events |-> c.events,
              context |-> ctx,
              guardrails |-> <<>>,
              customer_info |->
                  IF Truthy(ctx.customer_id)
                  THEN [customer |-> [name |-> ctx.passenger_name,
                                      account_number |-> ctx.account_number,
                                      email |-> ctx.customer_email,
                                      is_conference_attendee |-> ctx.is_conference_attendee,
                                      conference_name |-> ctx.conference_name],
                        bookings |-> <<>>]
                  ELSE [customer |-> None]]]

\* customer_info and the ChatResponse, built from the session as it is now
Respond(h, t) ==
    LET c   == h[t.conversation]
        ctx == c.context
        customer_info ==
            IF Truthy(ctx.customer_id)
            THEN [customer |-> [name |-> ctx.passenger_name,
                                account_number |-> ctx.account_number,
                                email |-> ctx.customer_email,
                                is_conference_attendee |-> ctx.is_conference_attendee,
                                conference_name |-> ctx.conference_name],
                  bookings |-> <<>>]
            ELSE [customer |-> None]
        n   == Len(c.messages)
    IN  [heap |-> h,
         task |-> IdleTask,
         response |->
             [status |-> "200",
              conversation_id |-> c.id,
              current_agent |-> c.current_agent,
              messages |-> IF n >= 2 THEN SubSeq(c.messages, n - 1, n)
                           ELSE c.messages,
              events |-> c.events,
              context |-> ctx,
              guardrails |-> <<>>,
              customer_info |-> customer_info]]

\* InternalError with the user's message recorded in the history before the
\* error is signalled
InternalError_recorded(h, t) ==
    [heap |-> [h EXCEPT ![t.conversation].messages =
                  Append(@, [content |-> t.request.message, agent |-> "User"])],
     task |-> IdleTask,
     response |-> [status |-> "500"]]

\* except Exception: HTTPException(status_code=500)
InternalError(h, t) ==
    [heap |-> h, task |-> IdleTask, response |-> [status |-> "500"]]

\* AppendExchange assigning the exchange instead of appending it
AppendExchange_reset(h, t, reply, agent_name) ==
    [h EXCEPT ![t.conversation] =
        [@ EXCEPT
            !.messages = <<[content |-> t.request.message, agent |-> "User"],
                           [content |-> reply, agent |-> agent_name]>>,
            !.current_agent = agent_name]]

\* AppendExchange appending the reply before the message it answers
AppendExchange_replyfirst(h, t, reply, agent_name) ==
    [h EXCEPT ![t.conversation] =
        [@ EXCEPT
            !.messages = @ \o <<[content |-> reply, agent |-> agent_name],
                                [content |-> t.request.message, agent |-> "User"]>>,
            !.current_agent = agent_name]]

\* AppendExchange leaving current_agent as it was
AppendExchange_keepagent(h, t, reply, agent_name) ==
    [h EXCEPT ![t.conversation] =
        [@ EXCEPT
            !.messages = @ \o <<[content |-> t.request.message, agent |-> "User"],
                                [content |-> reply, agent |-> agent_name]>>]]

\* the two appends of an exchange and the update of current_agent
AppendExchange(h, t, reply, agent_name) ==
    [h EXCEPT ![t.conversation] =
        [@ EXCEPT
            !.messages = @ \o <<[content |-> t.request.message, agent |-> "User"],
                                [content |-> reply, agent |-> agent_name]>>,
            !.current_agent = agent_name]]

\* the end of the submission branch: both appends, then the response
FinishForm(h, t, response_message) ==
    Respond(AppendExchange(h, t, response_message, "Networking Agent"), t)

\* RegularMessage keeping the session's active handler when no keyword of
\* either set occurs in the message
RegularMessage_sticky(h, t) ==
    LET r == MessageAnalysis[t.request.message].route
    IN  Respond(AppendExchange(h, t, r.response,
                    IF r.agent_name = "Triage Agent"
                    THEN h[t.conversation].current_agent
                    ELSE r.agent_name), t)

\* the else branch: append the message, route, append the reply, then the response
RegularMessage(h, t) ==
    LET r == MessageAnalysis[t.request.message].route
    IN  Respond(AppendExchange(h, t, r.response, r.agent_name), t)

\* ProcessMessage with "or" for "and" in the test before add_business
ProcessMessage_or(h, t) ==
    IF MessageAnalysis[t.request.message].marker
    THEN LET business_data == MessageAnalysis[t.request.message].business_data
             customer_id   == h[t.conversation].context.customer_id
             t1            == [t EXCEPT !.business_data = business_data]
         IN  IF DOMAIN business_data # {} \/ Truthy(customer_id)
             THEN [heap |-> h,
                   task |-> [t1 EXCEPT
                       !.pc = "await_add",
                       !.calls = Append(@, [op |-> "add_business", arg |-> customer_id])],
                   response |-> response]
             ELSE FinishForm(h, t1, RejectReply)
    ELSE RegularMessage(h, t)

\* from the marker test to the next await or to the response
ProcessMessage(h, t) ==
    IF MessageAnalysis[t.request.message].marker
    THEN LET business_data == MessageAnalysis[t.request.message].business_data
             customer_id   == h[t.conversation].context.customer_id
             t1            == [t EXCEPT !.business_data = business_data]
         IN  IF DOMAIN business_data # {} /\ Truthy(customer_id)
             THEN [heap |-> h,
                   task |-> [t1 EXCEPT
                       !.pc = "await_add",
                       !.calls = Append(@, [op |-> "add_business", arg |-> customer_id])],
                   response |-> response]
             ELSE FinishForm(h, t1, RejectReply)
    ELSE RegularMessage(h, t)

\* if user: the six context fields set from the record
UpdateContext(h, t, user) ==
    [h EXCEPT ![t.conversation].context =
        [@ EXCEPT
            !.passenger_name = Get(user, "name", None),
            !.customer_id = Get(user, "id", None),
            !.account_number = Get(user, "account_number", None),
            !.customer_email = Get(user, "email", None),
            !.is_conference_attendee = Get(user, "is_conference_attendee", "True"),
            !.conference_name = Get(user, "conference_name", "Business Conference 2025")]]

\* BeginRequest without the "not customer_id" half of the guard
BeginRequest_noguard(t) ==
    LET request == t.request
        g  == get_or_create_conversation(request.conversation_id,
                                         request.account_number)
        t1 == [t EXCEPT !.conversation = g.ref]
    IN  IF Truthy(request.account_number)
        THEN [conversations |-> g.conversations,
              heap |-> g.heap,
              task |-> [t1 EXCEPT
                  !.pc = "await_reg",
                  !.calls = Append(@, [op |-> "get_user_by_registration_id",
                                       arg |-> request.account_number])],
              response |-> response]
        ELSE [conversations |-> g.conversations] @@ ProcessMessage(g.heap, t1)

\* the body of chat_endpoint up to its first await: the session is fetched or
\* created, and the context is looked up when an account number is given and
\* no customer_id is set
BeginRequest(t) ==
    LET request == t.request
        g  == get_or_create_conversation(request.conversation_id,
                                         request.account_number)
        t1 == [t EXCEPT !.conversation = g.ref]
    IN  IF Truthy(request.account_number)
           /\ ~Truthy(g.heap[g.ref].context.customer_id)
        THEN [conversations |-> g.conversations,
              heap |-> g.heap,
              task |-> [t1 EXCEPT
                  !.pc = "await_reg",
                  !.calls = Append(@, [op |-> "get_user_by_registration_id",
                                       arg |-> request.account_number])],
              response |-> response]
        ELSE [conversations |-> g.conversations] @@ ProcessMessage(g.heap, t1)

\* get_user_by_registration_id returns (or raises)
RegReturns(h, t, outcome) ==
    IF outcome.kind = "raise" THEN InternalError(h, t)
    ELSE IF outcome.kind = "user"
    THEN ProcessMessage(UpdateContext(h, t, outcome.user), t)
    ELSE [heap |-> h,
          task |-> [t EXCEPT
              !.pc = "await_qr",
              !.calls = Append(@, [op |-> "get_user_by_qr_code",
                                   arg |-> t.request.account_number])],
          response |-> response]

\* get_user_by_qr_code returns (or raises)
QrReturns(h, t, outcome) ==
    IF outcome.kind = "raise" THEN InternalError(h, t)
    ELSE IF outcome.kind = "user"
    THEN ProcessMessage(UpdateContext(h, t, outcome.user), t)
    ELSE ProcessMessage(h, t)

\* add_business returns its success flag (or raises, which is caught)
AddReturns(h, t, outcome) ==
    FinishForm(h, t,
        IF outcome = "raise" THEN ErrorReply
        ELSE IF Truthy(outcome) THEN SuccessReply(t.business_data)
        ELSE IssueReply)

(***************************************************************************)
(* Requests                                                                *)
(***************************************************************************)
AccountNumbers == {None, "R1"}

\* a client names no conversation, or one it was given in a response
Requests ==
    [message : ApiMessages,
     conversation_id : {None} \cup DOMAIN conversations,
     account_number : AccountNumbers]

(***************************************************************************)
(* main.py: extraction utilities                                           *)
(***************************************************************************)
\* None where a text is expected
NoneText == <<None>>

TruthyText(x) == x \notin {<<>>, NoneText}

\* s.split(): the maximal runs of non-whitespace characters
RECURSIVE Words(_)
Words(s) ==
    LET t == LStrip(s)
    IN  IF t = <<>> THEN <<>>
        ELSE LET n == IF \E i \in 1..Len(t) : t[i] \in WhiteSpace
                      THEN (CHOOSE i \in 1..Len(t) :
                               /\ t[i] \in WhiteSpace
                               /\ \A j \in 1..(i - 1) : t[j] \notin WhiteSpace) - 1
                      ELSE Len(t)
             IN  <<SubSeq(t, 1, n)>> \o Words(SubSeq(t, n + 1, Len(t)))

speakers ==
    <<<<"A","l","i","c","e"," ","W","o","n","d","e","r","l","a","n","d">>,
      <<"B","o","b"," ","T","h","e"," ","B","u","i","l","d","e","r">>,
      <<"C","h","a","r","l","i","e"," ","C","h","a","p","l","i","n">>,
      <<"D","i","a","n","a"," ","P","r","i","n","c","e">>,
      <<"E","v","e"," ","H","a","r","r","i","n","g","t","o","n">>,
      <<"F","r","a","n","k"," ","S","i","n","a","t","r","a">>,
      <<"G","r","a","c","e"," ","H","o","p","p","e","r">>,
      <<"H","a","r","r","y"," ","P","o","t","t","e","r">>,
      <<"I","v","y"," ","L","e","a","g","u","e">>,
      <<"J","a","c","k"," ","S","p","a","r","r","o","w">>,
      <<"K","a","r","e","n"," ","C","a","r","p","e","n","t","e","r">>,
      <<"L","i","a","m"," ","N","e","e","s","o","n">>,
      <<"M","i","a"," ","W","a","l","l","a","c","e">>,
      <<"N","o","a","h"," ","W","y","l","e">>,
      <<"O","l","i","v","i","a"," ","N","e","w","t","o","n">>,
      <<"P","e","t","e","r"," ","P","a","n">>,
      <<"Q","u","i","n","n"," ","F","a","b","r","a","y">>,
      <<"R","a","c","h","e","l"," ","G","r","e","e","n">>,
      <<"S","a","m","w","i","s","e"," ","G","a","m","g","e","e">>,
      <<"T","i","n","a"," ","T","u","r","n","e","r">>,
      <<"U","l","y","s","s","e","s"," ","S","."," ","G","r","a","n","t">>,
      <<"V","i","c","t","o","r"," ","V","o","n"," ","D","o","o","m">>,
      <<"W","e","n","d","y"," ","D","a","r","l","i","n","g">>,
      <<"X","a","v","i","e","r"," ","R","i","d","d","l","e">>,
      <<"Y","a","r","a"," ","G","r","e","y","j","o","y">>,
      <<"Z","o","e"," ","W","a","s","h","b","u","r","n","e">>,
      <<"A","d","a","m"," ","S","a","n","d","l","e","r">>,
      <<"B","e","t","t","y"," ","B","o","o","p">>,
      <<"C","a","t","h","y"," ","L","a","n","e">>,
      <<"D","a","v","i","d"," ","B","o","w","i","e">>,
      <<"E","l","s","a"," ","F","r","o","z","e","n">>,
      <<"F","r","e","d"," ","F","l","i","n","t","s","t","o","n","e">>,
      <<"G","e","o","r","g","e"," ","J","e","t","s","o","n">>,
      <<"H","a","n","n","a","h"," ","M","o","n","t","a","n","a">>,
      <<"I","n","d","i","a","n","a"," ","J","o","n","e","s">>,
      <<"J","u","l","i","a"," ","C","h","i","l","d">>,
      <<"K","e","v","i","n"," ","H","a","r","t">>,
      <<"L","e","i","a"," ","O","r","g","a","n","a">>,
      <<"M","o","r","p","h","e","u","s"," ","N","e","o">>,
      <<"N","e","m","o"," ","F","i","s","h">>,
      <<"O","p","r","a","h"," ","W","i","n","f","r","e","y">>,
      <<"P","o","p","e","y","e"," ","S","a","i","l","o","r">>,
      <<"Q","u","e","e","n"," ","E","l","i","z","a","b","e","t","h">>,
      <<"R","o","n"," ","W","e","a","s","l","e","y">>,
      <<"S","h","e","r","l","o","c","k"," ","H","o","l","m","e","s">>,
      <<"T","o","n","y"," ","S","t","a","r","k">>,
      <<"U","m","a"," ","T","h","u","r","m","a","n">>,
      <<"V","i","n","c","e","n","t"," ","V","a","n"," ","G","o","g","h">>,
      <<"W","a","l","t","e","r"," ","W","h","i","t","e">>,
      <<"Y","o","d","a"," ","J","e","d","i">>,
      <<"Z","e","l","d","a"," ","P","r","i","n","c","e","s","s">>,
      <<"A","n","a","k","i","n"," ","S","k","y","w","a","l","k","e","r">>,
      <<"B","r","u","c","e"," ","W","a","y","n","e">>,
      <<"C","l","a","r","k"," ","K","e","n","t">>,
      <<"D","a","r","t","h"," ","V","a","d","e","r">>,
      <<"E","l","i","z","a"," ","D","o","o","l","i","t","t","l","e">>,
      <<"F","r","o","d","o"," ","B","a","g","g","i","n","s">>,
      <<"G","o","l","l","u","m"," ","P","r","e","c","i","o","u","s">>,
      <<"H","e","r","m","i","o","n","e"," ","G","r","a","n","g","e","r">>,
      <<"I","r","o","n"," ","M","a","n">>,
      <<"J","a","s","m","i","n","e"," ","P","r","i","n","c","e","s","s">>,
      <<"K","i","n","g"," ","A","r","t","h","u","r">>,
      <<"L","o","k","i"," ","M","i","s","c","h","i","e","f">>,
      <<"M","i","c","k","e","y"," ","M","o","u","s","e">>,
      <<"N","a","n","c","y"," ","D","r","e","w">>,
      <<"O","l","a","f"," ","S","n","o","w","m","a","n">>,
      <<"P","o","c","a","h","o","n","t","a","s">>,
      <<"Q","u","e","n","t","i","n"," ","T","a","r","a","n","t","i","n","o">>,
      <<"R","o","c","k","y"," ","B","a","l","b","o","a">>,
      <<"S","n","o","w"," ","W","h","i","t","e">>,
      <<"T","o","m"," ","C","r","u","i","s","e">>,
      <<"U","r","s","u","l","a"," ","S","e","a">>>>

\* speaker.lower() and speaker.lower().split(), for each speaker of the list
SpeakerLower == [k \in 1..Len(speakers) |-> Lower(speakers[k])]

SpeakerParts == [k \in 1..Len(speakers) |-> Words(SpeakerLower[k])]

\* the test of speaker k: the full name, or a part longer than 3 characters
SpeakerMatches(k, message_lower) ==
    \/ Contains(message_lower, SpeakerLower[k])
    \/ \E p \in 1..Len(SpeakerParts[k]) :
          /\ Len(SpeakerParts[k][p]) > 3
          /\ Contains(message_lower, SpeakerParts[k][p])

\* for speaker in speakers: the first that matches, from index k on
RECURSIVE ScanSpeakers(_, _)
ScanSpeakers(message_lower, k) ==
    IF k > Len(speakers) THEN NoneText
    ELSE IF SpeakerMatches(k, message_lower) THEN speakers[k]
    ELSE ScanSpeakers(message_lower, k + 1)

extract_speaker_from_message(message) == ScanSpeakers(Lower(message), 1)

\* canonical value, keywords: in declaration order
track_keywords ==
    <<<<"AI & ML",
        <<<<"a","i">>, <<"m","l">>, <<"m","a","c","h","i","n","e"," ","l","e","a","r","n","i","n","g">>, <<"a","r","t","i","f","i","c","i","a","l"," ","i","n","t","e","l","l","i","g","e","n","c","e">>, <<"a","i"," ","&"," ","m","l">>>>>>,
      <<"Cloud Computing",
        <<<<"c","l","o","u","d">>, <<"c","o","m","p","u","t","i","n","g">>, <<"c","l","o","u","d"," ","c","o","m","p","u","t","i","n","g">>>>>>,
      <<"Data Science",
        <<<<"d","a","t","a"," ","s","c","i","e","n","c","e">>, <<"d","a","t","a">>, <<"a","n","a","l","y","t","i","c","s">>>>>>,
      <<"Web Development",
        <<<<"w","e","b">>, <<"d","e","v","e","l","o","p","m","e","n","t">>, <<"f","r","o","n","t","e","n","d">>, <<"b","a","c","k","e","n","d">>, <<"w","e","b"," ","d","e","v","e","l","o","p","m","e","n","t">>>>>>,
      <<"Cybersecurity",
        <<<<"c","y","b","e","r">>, <<"s","e","c","u","r","i","t","y">>, <<"c","y","b","e","r","s","e","c","u","r","i","t","y">>>>>>,
      <<"Product Management",
        <<<<"p","r","o","d","u","c","t">>, <<"m","a","n","a","g","e","m","e","n","t">>, <<"p","r","o","d","u","c","t"," ","m","a","n","a","g","e","m","e","n","t">>>>>>,
      <<"Startup & Entrepreneurship",
        <<<<"s","t","a","r","t","u","p">>, <<"e","n","t","r","e","p","r","e","n","e","u","r">>, <<"e","n","t","r","e","p","r","e","n","e","u","r","s","h","i","p">>>>>>>>

\* for value, keywords in table.items(): the first entry with a keyword in the
\* message, from index k on
RECURSIVE ScanTable(_, _, _)
ScanTable(table, message_lower, k) ==
    IF k > Len(table) THEN None
    ELSE IF AnyWordIn(table[k][2], message_lower) THEN table[k][1]
    ELSE ScanTable(table, message_lower, k + 1)

\* extract_track_from_message taking the last matching entry of the table
extract_track_from_message_last(message) ==
    LET message_lower == Lower(message)
        hits == {k \in 1..Len(track_keywords) :
                    \E j \in 1..Len(track_keywords[k][2]) :
                        Contains(message_lower, track_keywords[k][2][j])}
    IN  IF hits = {} THEN None
        ELSE track_keywords[CHOOSE k \in hits : \A j \in hits : j <= k][1]

extract_track_from_message(message) ==
    ScanTable(track_keywords, Lower(message), 1)

\* canonical value, keywords: in declaration order
room_keywords ==
    <<<<"Grand Ballroom",
        <<<<"g","r","a","n","d"," ","b","a","l","l","r","o","o","m">>, <<"b","a","l","l","r","o","o","m">>>>>>,
      <<"Executive Suite 1",
        <<<<"e","x","e","c","u","t","i","v","e"," ","s","u","i","t","e"," ","1">>, <<"e","x","e","c","u","t","i","v","e"," ","s","u","i","t","e">>>>>>,
      <<"Executive Suite 2",
        <<<<"e","x","e","c","u","t","i","v","e"," ","s","u","i","t","e"," ","2">>>>>>,
      <<"Breakout Room A",
        <<<<"b","r","e","a","k","o","u","t"," ","r","o","o","m"," ","a">>, <<"b","r","e","a","k","o","u","t"," ","a">>>>>>,
      <<"Breakout Room B",
        <<<<"b","r","e","a","k","o","u","t"," ","r","o","o","m"," ","b">>, <<"b","r","e","a","k","o","u","t"," ","b">>>>>>,
      <<"Innovation Hub",
        <<<<"i","n","n","o","v","a","t","i","o","n"," ","h","u","b">>, <<"h","u","b">>>>>>,
      <<"Networking Lounge",
        <<<<"n","e","t","w","o","r","k","i","n","g"," ","l","o","u","n","g","e">>, <<"l","o","u","n","g","e">>>>>>>>

extract_room_from_message(message) ==
    ScanTable(room_keywords, Lower(message), 1)


(***************************************************************************)
(* main.py: the regular expressions of parse_date_from_message and         *)
(* extract_person_name_from_message, matched as re.search matches them     *)
(* (leftmost start, greedy, backtracking)                                  *)
(***************************************************************************)
Digits == {"0","1","2","3","4","5","6","7","8","9"}

Letters == {LowerCase[i] : i \in 1..26} \cup {UpperCase[i] : i \in 1..26}

\* \w
WordChars == Letters \cup Digits \cup {"_"}

\* [A-Za-z\s]
NameChars == Letters \cup WhiteSpace

\* length of the longest run of characters of class C that starts at s[i]
RunLen(s, i, C) ==
    CHOOSE n \in 0..(IF i > Len(s) THEN 0 ELSE Len(s) - i + 1) :
        /\ \A j \in 0..(n - 1) : s[i + j] \in C
        /\ (i + n > Len(s) \/ s[i + n] \notin C)

\* the literal k stands at s[i]
StartsWith(s, i, k) ==
    /\ i >= 1
    /\ i + Len(k) - 1 <= Len(s)
    /\ \A j \in 1..Len(k) : s[i + j - 1] = k[j]

NoMatch == <<"<no match>">>

\* (\w+\s+\d+) from s[i]: the index of its last character, 0 if it does not match
DateTailEnd(s, i) ==
    LET w  == RunLen(s, i, WordChars)
        sp == RunLen(s, i + w, WhiteSpace)
        d  == RunLen(s, i + w + sp, Digits)
    IN  IF w = 0 \/ sp = 0 \/ d = 0 THEN 0 ELSE i + w + sp + d - 1

\* word s? \s+ on \s+ (\w+\s+\d+) at s[i]: the group, or NoMatch
WordOnDateAt(s, i, word) ==
    IF ~StartsWith(s, i, word) THEN NoMatch
    ELSE LET j   == i + Len(word)
             j2  == IF StartsWith(s, j, <<"s">>) THEN j + 1 ELSE j
             sp1 == RunLen(s, j2, WhiteSpace)
             o   == j2 + sp1
             sp2 == RunLen(s, o + 2, WhiteSpace)
             g   == o + 2 + sp2
         IN  IF sp1 = 0 \/ ~StartsWith(s, o, <<"o","n">>) \/ sp2 = 0
                \/ DateTailEnd(s, g) = 0
             THEN NoMatch
             ELSE SubSeq(s, g, DateTailEnd(s, g))

\* (\w+\s+\d+(?:st|nd|rd|th)?) at s[i]: the group, or NoMatch
OrdinalDateAt(s, i) ==
    LET e == DateTailEnd(s, i)
    IN  IF e = 0 THEN NoMatch
        ELSE IF \E x \in {<<"s","t">>, <<"n","d">>, <<"r","d">>, <<"t","h">>} : StartsWith(s, e + 1, x)
        THEN SubSeq(s, i, e + 2)
        ELSE SubSeq(s, i, e)

\* date_patterns[k] at s[i]
DatePatternAt(k, s, i) ==
    IF k = 1 THEN WordOnDateAt(s, i, <<"e","v","e","n","t">>)
    ELSE IF k = 2 THEN WordOnDateAt(s, i, <<"s","e","s","s","i","o","n">>)
    ELSE IF k = 3 THEN WordOnDateAt(s, i, <<"s","p","e","a","k","e","r">>)
    ELSE OrdinalDateAt(s, i)

\* the least element of a non-empty set of positions
Least(at) == CHOOSE i \in at : \A j \in at : i <= j

\* the group of date_patterns[k] at the leftmost of the positions at
DateGroupAt(k, s, at) ==
    IF at = {} THEN NoMatch ELSE DatePatternAt(k, s, Least(at))

\* re.search(date_patterns[k], s).group(1), or NoMatch
DateSearch(k, s) ==
    DateGroupAt(k, s, {i \in 1..Len(s) : DatePatternAt(k, s, i) # NoMatch})

\* the date named by a captured date_str; None when it names none of them
DateOfGroup(date_str) ==
    IF date_str # NoMatch /\ Contains(date_str, <<"j","u","l","y"," ","1","5">>) THEN "2025-07-15"
    ELSE IF date_str # NoMatch /\ Contains(date_str, <<"j","u","l","y"," ","1","6">>) THEN "2025-07-16"
    ELSE IF date_str # NoMatch /\ Contains(date_str, <<"s","e","p","t","e","m","b","e","r"," ","1">>) THEN "2025-09-01"
    ELSE None

\* the result of this iteration of a loop, or that of the rest of the loop
OrElse(found, none, rest) == IF found # none THEN found ELSE rest

\* for pattern in date_patterns, from pattern k on
RECURSIVE ScanDatePatterns(_, _)
ScanDatePatterns(message_lower, k) ==
    IF k > 4 THEN None
    ELSE OrElse(DateOfGroup(DateSearch(k, message_lower)), None,
                ScanDatePatterns(message_lower, k + 1))

parse_date_from_message(message) ==
    LET message_lower == Lower(message)
    IN  IF \/ Contains(message_lower, <<"j","u","l","y"," ","1","5">>)
           \/ Contains(message_lower, <<"1","5","t","h"," ","j","u","l","y">>)
           \/ Contains(message_lower, <<"j","u","l","y"," ","1","5","t","h">>)
        THEN "2025-07-15"
        ELSE IF \/ Contains(message_lower, <<"j","u","l","y"," ","1","6">>)
                \/ Contains(message_lower, <<"1","6","t","h"," ","j","u","l","y">>)
                \/ Contains(message_lower, <<"j","u","l","y"," ","1","6","t","h">>)
        THEN "2025-07-16"
        ELSE IF \/ Contains(message_lower, <<"s","e","p","t","e","m","b","e","r"," ","1">>)
                \/ Contains(message_lower, <<"1","s","t"," ","s","e","p","t","e","m","b","e","r">>)
                \/ Contains(message_lower, <<"s","e","p","t","e","m","b","e","r"," ","1","s","t">>)
        THEN "2025-09-01"
        ELSE IF Contains(message_lower, <<"s","e","p","t","e","m","b","e","r">>)
        THEN "2025-09-01"
        ELSE ScanDatePatterns(message_lower, 1)

\* \s+([A-Za-z\s]+) from s[j]: the group, or NoMatch
NameTail(s, j) ==
    LET r == RunLen(s, j, NameChars)
        w == RunLen(s, j, WhiteSpace)
    IN  IF w = 0 \/ r < 2 THEN NoMatch
        ELSE IF r > w THEN SubSeq(s, j + w, j + r - 1)
        ELSE SubSeq(s, j + r - 1, j + r - 1)

\* tell\s+(?:me\s+)?about\s+([A-Za-z\s]+) at s[i]
TellAboutAt(s, i) ==
    IF ~StartsWith(s, i, <<"t","e","l","l">>) THEN NoMatch
    ELSE LET w1 == RunLen(s, i + 4, WhiteSpace)
             t  == i + 4 + w1
             w2 == RunLen(s, t + 2, WhiteSpace)
             a  == t + 2 + w2
         IN  IF w1 = 0 THEN NoMatch
             ELSE IF StartsWith(s, t, <<"m","e">>) /\ w2 > 0 /\ StartsWith(s, a, <<"a","b","o","u","t">>)
             THEN NameTail(s, a + 5)
             ELSE IF StartsWith(s, t, <<"a","b","o","u","t">>)
             THEN NameTail(s, t + 5)
             ELSE NoMatch

\* show\s+(?:me\s+)?([A-Za-z\s]+) at s[i]
ShowAt(s, i) ==
    IF ~StartsWith(s, i, <<"s","h","o","w">>) THEN NoMatch
    ELSE LET w1 == RunLen(s, i + 4, WhiteSpace)
             t  == i + 4 + w1
             w2 == RunLen(s, t + 2, WhiteSpace)
             u  == t + 2 + w2
         IN  IF w1 = 0 THEN NoMatch
             ELSE IF StartsWith(s, t, <<"m","e">>) /\ w2 > 0
             THEN IF RunLen(s, u, NameChars) > 0
                  THEN SubSeq(s, u, u + RunLen(s, u, NameChars) - 1)
                  ELSE IF w2 >= 2 THEN SubSeq(s, u - 1, u - 1)
                  ELSE SubSeq(s, t, u - 1)
             ELSE IF RunLen(s, t, NameChars) > 0
             THEN SubSeq(s, t, t + RunLen(s, t, NameChars) - 1)
             ELSE IF w1 >= 2 THEN SubSeq(s, t - 1, t - 1)
             ELSE NoMatch

\* who\s+is\s+([A-Za-z\s]+) at s[i]
WhoIsAt(s, i) ==
    IF ~StartsWith(s, i, <<"w","h","o">>) THEN NoMatch
    ELSE LET w1 == RunLen(s, i + 3, WhiteSpace)
             t  == i + 3 + w1
         IN  IF w1 = 0 \/ ~StartsWith(s, t, <<"i","s">>) THEN NoMatch
             ELSE NameTail(s, t + 2)

\* patterns[k] at s[i]
NamePatternAt(k, s, i) ==
    IF k = 1 THEN TellAboutAt(s, i)
    ELSE IF k = 2
    THEN (IF StartsWith(s, i, <<"a","b","o","u","t">>) THEN NameTail(s, i + 5) ELSE NoMatch)
    ELSE IF k = 3
    THEN (IF StartsWith(s, i, <<"f","i","n","d">>) THEN NameTail(s, i + 4) ELSE NoMatch)
    ELSE IF k = 4 THEN ShowAt(s, i)
    ELSE WhoIsAt(s, i)

\* the group of patterns[k] at the leftmost of the positions at
NameGroupAt(k, s, at) ==
    IF at = {} THEN NoMatch ELSE NamePatternAt(k, s, Least(at))

\* re.search(patterns[k], s).group(1), or NoMatch
NameSearch(k, s) ==
    NameGroupAt(k, s, {i \in 1..Len(s) : NamePatternAt(k, s, i) # NoMatch})

exclude_words ==
    {<<"s","p","e","a","k","e","r">>, <<"s","p","e","a","k","e","r","s">>, <<"a","t","t","e","n","d","e","e">>, <<"a","t","t","e","n","d","e","e","s">>, <<"b","u","s","i","n","e","s","s">>,
     <<"b","u","s","i","n","e","s","s","e","s">>, <<"c","o","m","p","a","n","y">>, <<"c","o","m","p","a","n","i","e","s">>, <<"s","e","s","s","i","o","n">>, <<"s","e","s","s","i","o","n","s">>,
     <<"e","v","e","n","t">>, <<"e","v","e","n","t","s">>}

UpperChar(c) ==
    IF \E i \in 1..26 : LowerCase[i] = c
    THEN UpperCase[CHOOSE i \in 1..26 : LowerCase[i] = c]
    ELSE c

\* str.title(): a letter after a non-letter is upper-cased, the others lower-cased
Title(s) ==
    [i \in 1..Len(s) |->
        IF i = 1 \/ s[i - 1] \notin Letters THEN UpperChar(s[i]) ELSE LowerChar(s[i])]

\* the name a captured group yields: stripped and title-cased, unless it is an
\* excluded word or too short
NameOfGroup(g) ==
    IF g # NoMatch /\ Lower(Strip(g)) \notin exclude_words /\ Len(Strip(g)) > 2
    THEN Title(Strip(g))
    ELSE NoneText

\* for pattern in patterns, from pattern k on
RECURSIVE ScanNamePatterns(_, _)
ScanNamePatterns(message_lower, k) ==
    IF k > 5 THEN NoneText
    ELSE OrElse(NameOfGroup(NameSearch(k, message_lower)), NoneText,
                ScanNamePatterns(message_lower, k + 1))

extract_person_name_from_message(message) ==
    ScanNamePatterns(Lower(message), 1)

(***************************************************************************)
(* main.py: the capability handlers.  Each awaits at most one collaborator *)
(* operation; o is what that operation comes back with.  A handler yields  *)
(* its text and the collaborator calls it made.                            *)
(***************************************************************************)
Raise == [kind |-> "raise"]

Rows(rows) == [kind |-> "rows", rows |-> rows]

\* sep.join(texts)
RECURSIVE Join(_, _)
Join(sep, texts) ==
    IF texts = <<>> THEN <<>>
    ELSE IF Len(texts) = 1 THEN texts[1]
    ELSE texts[1] \o sep \o Join(sep, Tail(texts))

\* if details.get(key): result += f"{label}{details.get(key)}\n", for each
\* <<label, key>> of fields in turn
RECURSIVE OptionalLines(_, _)
OptionalLines(details, fields) ==
    IF fields = <<>> THEN <<>>
    ELSE (IF Truthy(Get(details, fields[1][2], None))
          THEN <<fields[1][1], details[fields[1][2]], "\n">>
          ELSE <<>>)
         \o OptionalLines(details, Tail(fields))

DigitValue(c) == CHOOSE n \in 0..9 : ToString(n) = c

\* start_time.replace('Z', '+00:00')
RECURSIVE ReplaceZ(_)
ReplaceZ(s) ==
    IF s = <<>> THEN <<>>
    ELSE (IF Head(s) = "Z" THEN <<"+","0","0",":","0","0">> ELSE <<Head(s)>>) \o ReplaceZ(Tail(s))

\* datetime.fromisoformat accepts s, for the forms YYYY-MM-DDTHH:MM:SS and
\* YYYY-MM-DDTHH:MM:SS+00:00 (every other text with a 'T' in the model's data is
\* not a timestamp)
IsIsoDateTime(s) ==
    /\ Len(s) \in {19, 25}
    /\ \A i \in {1,2,3,4,6,7,9,10,12,13,15,16,18,19} : s[i] \in Digits
    /\ s[5] = "-" /\ s[8] = "-" /\ s[11] = "T" /\ s[14] = ":" /\ s[17] = ":"
    /\ Len(s) = 25 => SubSeq(s, 20, 25) = <<"+","0","0",":","0","0">>
    /\ 10 * DigitValue(s[12]) + DigitValue(s[13]) < 24
    /\ 10 * DigitValue(s[15]) + DigitValue(s[16]) < 60
    /\ 10 * DigitValue(s[18]) + DigitValue(s[19]) < 60

\* datetime.fromisoformat(s).strftime('%I:%M %p')
FormatClock(s) ==
    LET hour == 10 * DigitValue(s[12]) + DigitValue(s[13])
        h12  == IF hour % 12 = 0 THEN 12 ELSE hour % 12
    IN  <<ToString(h12 \div 10), ToString(h12 % 10), ":", s[15], s[16], " ">>
        \o (IF hour < 12 THEN <<"A","M">> ELSE <<"P","M">>)

\* the time shown for a session; "<ValueError>" when fromisoformat raises
SessionTime(session, key) ==
    LET t == Get(session, key, <<"T","B","D">>)
    IN  IF \E i \in 1..Len(t) : t[i] = "T"
        THEN (IF IsIsoDateTime(ReplaceZ(t)) THEN FormatClock(ReplaceZ(t))
              ELSE <<"<ValueError>">>)
        ELSE t

\* for session in schedule: the block of text of each session
RECURSIVE SessionBlocks(_)
SessionBlocks(schedule) ==
    IF schedule = <<>> THEN <<>>
    ELSE LET session == Head(schedule)
         IN  <<"**", Get(session, "topic", "Unknown Topic"), "**\n",
               "Speaker: ", Get(session, "speaker_name", "TBD"), "\n",
               "Time: ">> \o SessionTime(session, "start_time") \o <<" - ">>
               \o SessionTime(session, "end_time") \o
             <<"\n",
               "Room: ", Get(session, "conference_room_name", "TBD"), "\n",
               "Track: ", Get(session, "track_name", "TBD"), "\n",
               "Date: ", Get(session, "conference_date", "TBD"), "\n">>
             \o OptionalLines(session, <<<<"Description: ", "description">>>>)
             \o <<"\n">>
             \o SessionBlocks(Tail(schedule))

\* the first time of the listing that fromisoformat rejects, as it was passed;
\* <<>> when every time can be shown
RECURSIVE FirstBadTime(_)
FirstBadTime(schedule) ==
    IF schedule = <<>> THEN <<>>
    ELSE IF SessionTime(Head(schedule), "start_time") = <<"<ValueError>">>
    THEN ReplaceZ(Get(Head(schedule), "start_time", <<"T","B","D">>))
    ELSE IF SessionTime(Head(schedule), "end_time") = <<"<ValueError>">>
    THEN ReplaceZ(Get(Head(schedule), "end_time", <<"T","B","D">>))
    ELSE FirstBadTime(Tail(schedule))

\* the texts datetime.strptime(text, "%Y-%m-%d") accepts among those a router
\* can pass
IsoDates == {"2025-07-15", "2025-07-16", "2025-09-01"}

get_conference_schedule_tool(speaker_name, topic, conference_room_name, track_name, conference_date, o) ==
    LET call == [op |-> "get_conference_schedule",
                 args |-> [speaker_name |-> speaker_name, topic |-> topic,
                           conference_room_name |-> conference_room_name,
                           track_name |-> track_name,
                           conference_date |-> conference_date]]
        filters ==
            (IF TruthyText(speaker_name)
             THEN <<<<"speaker '">> \o speaker_name \o <<"'">>>> ELSE <<>>)
            \o (IF Truthy(topic) THEN <<<<"topic '", topic, "'">>>> ELSE <<>>)
            \o (IF Truthy(conference_room_name)
                THEN <<<<"room '", conference_room_name, "'">>>> ELSE <<>>)
            \o (IF Truthy(track_name)
                THEN <<<<"track '", track_name, "'">>>> ELSE <<>>)
            \o (IF Truthy(conference_date)
                THEN <<<<"date '", conference_date, "'">>>> ELSE <<>>)
        filter_text ==
            IF filters # <<>> THEN Join(<<" and ">>, filters)
            ELSE <<"your criteria">>
        shown == IF Len(o.rows) > 10 THEN SubSeq(o.rows, 1, 10) ELSE o.rows
    IN  IF Truthy(conference_date) /\ conference_date \notin IsoDates
        THEN [result |-> <<"Invalid date format: ", conference_date,
                           ". Please use YYYY-MM-DD format.">>,
              calls |-> <<>>]
        ELSE IF o.kind = "raise"
        THEN [result |-> <<"Error retrieving conference schedule: ", FaultText>>,
              calls |-> <<call>>]
        ELSE IF o.rows = <<>>
        THEN [result |-> <<"No conference sessions found for ">> \o filter_text
                         \o <<".">>,
              calls |-> <<call>>]
        ELSE IF FirstBadTime(shown) # <<>>
        THEN [result |-> <<"Error retrieving conference schedule: ",
                           "Invalid isoformat string: '">>
                         \o FirstBadTime(shown) \o <<"'">>,
              calls |-> <<call>>]
        ELSE [result |->
                 (IF Len(o.rows) > 10
                  THEN <<"Found ", ToString(Len(shown)),
                         " conference sessions (showing first 10):\n\n">>
                  ELSE <<"Found ", ToString(Len(shown)),
                         " conference session(s):\n\n">>)
                 \o SessionBlocks(shown),
              calls |-> <<call>>]

\* text.strip() of a text made of whole names and single blanks
RECURSIVE StripBlanks(_)
StripBlanks(text) ==
    IF text = <<>> THEN <<>>
    ELSE IF Head(text) \in {"", " "} THEN StripBlanks(Tail(text))
    ELSE IF text[Len(text)] \in {"", " "}
    THEN StripBlanks(SubSeq(text, 1, Len(text) - 1))
    ELSE text

AttendeeFields ==
    <<<<"Company: ", "company">>, <<"Location: ", "location">>,
      <<"Primary Stream: ", "primary_stream">>,
      <<"Secondary Stream: ", "secondary_stream">>,
      <<"Conference Package: ", "conference_package">>,
      <<"Email: ", "email">>, <<"Mobile: ", "mobile">>>>

\* details.get('user_name') or f"{firstName} {lastName}".strip()
AttendeeName(details) ==
    IF Truthy(Get(details, "user_name", None))
    THEN <<details.user_name>>
    ELSE StripBlanks(<<Get(details, "firstName", ""), " ",
                       Get(details, "lastName", "")>>)

\* for attendee in attendees: the block of text of each attendee
RECURSIVE AttendeeBlocks(_)
AttendeeBlocks(attendees) ==
    IF attendees = <<>> THEN <<>>
    ELSE <<"**">> \o AttendeeName(Get(Head(attendees), "details", <<>>))
         \o <<"**\n">>
         \o OptionalLines(Get(Head(attendees), "details", <<>>), AttendeeFields)
         \o <<"\n">>
         \o AttendeeBlocks(Tail(attendees))

\* search_attendees_tool listing all attendees, with a second call, when the
\* search by name finds nobody
search_attendees_tool_fallback(name, limit, o) ==
    LET by_name == [op |-> "get_user_details_by_name", args |-> [name |-> name]]
        all     == [op |-> "get_all_attendees", args |-> [limit |-> limit]]
        calls   == IF ~TruthyText(name) THEN <<all>>
                   ELSE IF o = Rows(<<>>) THEN <<by_name, all>>
                   ELSE <<by_name>>
    IN  IF o.kind = "raise"
        THEN [result |-> <<"Error searching attendees: ", FaultText>>,
              calls |-> calls]
        ELSE IF o.rows = <<>>
        THEN [result |-> <<"No attendees found ">>
                         \o (IF TruthyText(name)
                             THEN <<"named '">> \o name \o <<"'">>
                             ELSE <<"in the conference">>)
                         \o <<".">>,
              calls |-> calls]
        ELSE [result |-> <<"Found ", ToString(Len(o.rows)), " attendee(s):\n\n">>
                         \o AttendeeBlocks(o.rows),
              calls |-> calls]

search_attendees_tool(name, limit, o) ==
    LET call == IF TruthyText(name)
                THEN [op |-> "get_user_details_by_name", args |-> [name |-> name]]
                ELSE [op |-> "get_all_attendees", args |-> [limit |-> limit]]
    IN  IF o.kind = "raise"
        THEN [result |-> <<"Error searching attendees: ", FaultText>>,
              calls |-> <<call>>]
        ELSE IF o.rows = <<>>
        THEN [result |-> <<"No attendees found ">>
                         \o (IF TruthyText(name)
                             THEN <<"named '">> \o name \o <<"'">>
                             ELSE <<"in the conference">>)
                         \o <<".">>,
              calls |-> <<call>>]
        ELSE [result |-> <<"Found ", ToString(Len(o.rows)), " attendee(s):\n\n">>
                         \o AttendeeBlocks(o.rows),
              calls |-> <<call>>]

SearchBusinessFields ==
    <<<<"Industry: ", "industrySector">>, <<"Sub-sector: ", "subSector">>,
      <<"Location: ", "location">>, <<"Description: ", "briefDescription">>,
      <<"Products/Services: ", "productsOrServices">>, <<"Website: ", "web">>>>

UserBusinessFields ==
    <<<<"Industry: ", "industrySector">>, <<"Sub-sector: ", "subSector">>,
      <<"Location: ", "location">>, <<"Position: ", "positionTitle">>,
      <<"Description: ", "briefDescription">>,
      <<"Products/Services: ", "productsOrServices">>, <<"Website: ", "web">>>>

RECURSIVE BusinessBlocks(_, _)
BusinessBlocks(businesses, fields) ==
    IF businesses = <<>> THEN <<>>
    ELSE LET details == Get(Head(businesses), "details", <<>>)
         IN  <<"**", Get(details, "companyName", "Unknown Company"), "**\n">>
             \o OptionalLines(details, fields) \o <<"\n">>
             \o BusinessBlocks(Tail(businesses), fields)

\* search_businesses_tool without its except clause: a fault of the
\* collaborator leaves the handler as an exception
search_businesses_tool_nocatch(query, sector, location, o) ==
    LET call == [op |-> "search_businesses",
                 args |-> [query |-> query, sector |-> sector,
                           location |-> location]]
        filters ==
            (IF Truthy(query) THEN <<<<"query '", query, "'">>>> ELSE <<>>)
            \o (IF Truthy(sector) THEN <<<<"sector '", sector, "'">>>> ELSE <<>>)
            \o (IF Truthy(location)
                THEN <<<<"location '", location, "'">>>> ELSE <<>>)
        filter_text ==
            IF filters # <<>> THEN Join(<<" and ">>, filters)
            ELSE <<"your criteria">>
    IN  IF o.kind = "raise"
        THEN [result |-> <<"<Exception>">>, calls |-> <<call>>]
        ELSE IF o.rows = <<>>
        THEN [result |-> <<"No businesses found for ">> \o filter_text \o <<".">>,
              calls |-> <<call>>]
        ELSE [result |-> <<"Found ", ToString(Len(o.rows)), " business(es):\n\n">>
                         \o BusinessBlocks(o.rows, SearchBusinessFields),
              calls |-> <<call>>]

search_businesses_tool(query, sector, location, o) ==
    LET call == [op |-> "search_businesses",
                 args |-> [query |-> query, sector |-> sector,
                           location |-> location]]
        filters ==
            (IF Truthy(query) THEN <<<<"query '", query, "'">>>> ELSE <<>>)
            \o (IF Truthy(sector) THEN <<<<"sector '", sector, "'">>>> ELSE <<>>)
            \o (IF Truthy(location)
                THEN <<<<"location '", location, "'">>>> ELSE <<>>)
        filter_text ==
            IF filters # <<>> THEN Join(<<" and ">>, filters)
            ELSE <<"your criteria">>
    IN  IF o.kind = "raise"
        THEN [result |-> <<"Error searching businesses: ", FaultText>>,
              calls |-> <<call>>]
        ELSE IF o.rows = <<>>
        THEN [result |-> <<"No businesses found for ">> \o filter_text \o <<".">>,
              calls |-> <<call>>]
        ELSE [result |-> <<"Found ", ToString(Len(o.rows)), " business(es):\n\n">>
                         \o BusinessBlocks(o.rows, SearchBusinessFields),
              calls |-> <<call>>]

get_user_businesses_tool(user_id, user_name, o) ==
    LET call == [op |-> "get_user_businesses", args |-> [user_id |-> user_id]]
        user_text == IF Truthy(user_name) THEN user_name ELSE "you"
    IN  IF ~Truthy(user_id)
        THEN [result |-> <<"No user specified and no current user context available.">>,
              calls |-> <<>>]
        ELSE IF o.kind = "raise"
        THEN [result |-> <<"Error retrieving user businesses: ", FaultText>>,
              calls |-> <<call>>]
        ELSE IF o.rows = <<>>
        THEN [result |-> <<"No businesses found for ", user_text, ".">>,
              calls |-> <<call>>]
        ELSE [result |-> <<"Found ", ToString(Len(o.rows)), " business(es) for ",
                           user_text, ":\n\n">>
                         \o BusinessBlocks(o.rows, UserBusinessFields),
              calls |-> <<call>>]

\* for key, value in details.items(): if value: the line of
\* key.replace('_', ' ').title() and value
RECURSIVE OrganizationLines(_)
OrganizationLines(items) ==
    IF items = <<>> THEN <<>>
    ELSE (IF Truthy(items[1][2])
          THEN Title([i \in 1..Len(items[1][1]) |->
                         IF items[1][1][i] = "_" THEN " " ELSE items[1][1][i]])
               \o <<": ", items[1][2], "\n">>
          ELSE <<>>)
         \o OrganizationLines(Tail(items))

\* o.rows is <<>> when the collaborator has no such organization (None)
get_organization_info_tool(organization_id, o) ==
    LET call == [op |-> "get_organization_details",
                 args |-> [organization_id |-> organization_id]]
    IN  IF ~Truthy(organization_id)
        THEN [result |-> <<"No organization specified.">>, calls |-> <<>>]
        ELSE IF o.kind = "raise"
        THEN [result |-> <<"Error retrieving organization information: ",
                           FaultText>>,
              calls |-> <<call>>]
        ELSE IF o.rows = <<>>
        THEN [result |-> <<"No organization found with ID '", organization_id,
                           "'.">>,
              calls |-> <<call>>]
        ELSE LET organization == o.rows[1]
             IN  [result |-> <<"**Organization Information**\n\n",
                               "Name: ", Get(organization, "name", "Unknown"), "\n">>
                             \o OrganizationLines(Get(organization, "details", <<>>)),
                  calls |-> <<call>>]

\* o.rows holds the success flag of add_business
add_business_tool(user_id, company_name, industry_sector, sub_sector, location, position_title, legal_structure, establishment_year, products_or_services, brief_description, website, o) ==
    LET required ==
            [companyName |-> company_name, industrySector |-> industry_sector,
             subSector |-> sub_sector, location |-> location,
             positionTitle |-> position_title, legalStructure |-> legal_structure,
             establishmentYear |-> establishment_year,
             productsOrServices |-> products_or_services,
             briefDescription |-> brief_description]
        business_details ==
            IF Truthy(website) THEN required @@ [web |-> website] ELSE required
        call == [op |-> "add_business",
                 args |-> [user_id |-> user_id,
                           business_details |-> business_details]]
    IN  IF ~Truthy(user_id)
        THEN [result |-> <<"Unable to add business: No user context available.">>,
              calls |-> <<>>]
        ELSE IF o.kind = "raise"
        THEN [result |-> <<"Error adding business: ", FaultText>>,
              calls |-> <<call>>]
        ELSE IF Truthy(o.rows[1])
        THEN [result |-> <<"Successfully added business '", company_name,
                           "' to your profile. The business is now listed in the business directory and available for networking.">>,
              calls |-> <<call>>]
        ELSE [result |-> <<"Failed to add business '", company_name,
                           "'. Please try again or contact support.">>,
              calls |-> <<call>>]

(***************************************************************************)
(* main.py: the intent routers.  db gives, for each collaborator operation,*)
(* what it comes back with; a router yields its text and the collaborator  *)
(* calls made on its behalf.                                               *)
(***************************************************************************)
OutOfRangeReply ==
    <<"I don't have any conference sessions scheduled for September. The Business Conference 2025 is scheduled for July 15-16, 2025. Would you like to see the sessions for those dates instead?">>

\* topic keywords of execute_schedule_agent
ScheduleTopic(message_lower) ==
    IF Contains(message_lower, <<"f","u","t","u","r","e"," ","o","f"," ","a","i">>)
    THEN "The Future of AI in Travel"
    ELSE IF Contains(message_lower, <<"c","l","o","u","d"," ","i","n","f","r","a","s","t","r","u","c","t","u","r","e">>)
    THEN "Scaling Cloud Infrastructure for Airlines"
    ELSE None

\* f"{prefix}{result}" around what a handler yields
Prefixed(prefix, r) == [result |-> prefix \o r.result, calls |-> r.calls]

\* the generic-speaker override of execute_schedule_agent
SpeakerOverview(o) ==
    Prefixed(<<"Here are the speakers for July 15th, 2025:\n\n">>,
             get_conference_schedule_tool(NoneText, None, None, None,
                                          "2025-07-15", o))

\* the last step of execute_schedule_agent, on the values extracted: the
\* default date of a query with no filter (the same date in both branches),
\* and the schedule query
FilteredQuery(message_lower, speaker_name, track_name, room_name, date_str, topic, o) ==
    LET no_filter == /\ ~TruthyText(speaker_name)
                     /\ ~Truthy(track_name)
                     /\ ~Truthy(room_name)
                     /\ ~Truthy(date_str)
                     /\ ~Truthy(topic)
    IN  get_conference_schedule_tool(
            speaker_name, topic, room_name, track_name,
            IF no_filter /\ (\/ Contains(message_lower, <<"e","v","e","n","t","s">>)
                             \/ Contains(message_lower, <<"s","e","s","s","i","o","n","s">>)
                             \/ Contains(message_lower, <<"s","p","e","a","k","e","r","s">>)
                             \/ Contains(message_lower, <<"s","p","e","a","k","e","r">>))
            THEN "2025-07-15"
            ELSE date_str,
            o)

\* the extractions of execute_schedule_agent, and its last step
ScheduleQuery(message, o) ==
    FilteredQuery(Lower(message),
                  extract_speaker_from_message(message),
                  extract_track_from_message(message),
                  extract_room_from_message(message),
                  parse_date_from_message(message),
                  ScheduleTopic(Lower(message)),
                  o)

\* execute_schedule_agent with the September short-circuit tested before the
\* generic-speaker override
execute_schedule_agent_septfirst(message, context, db) ==
    LET message_lower == Lower(message)
        speaker_name == extract_speaker_from_message(message)
    IN  IF Contains(message_lower, <<"s","e","p","t","e","m","b","e","r">>)
        THEN [result |-> OutOfRangeReply, calls |-> <<>>]
        ELSE IF /\ (\/ Contains(message_lower, <<"t","e","l","l"," ","m","e"," ","a","b","o","u","t"," ","s","p","e","a","k","e","r">>)
                    \/ Contains(message_lower, <<"a","b","o","u","t"," ","s","p","e","a","k","e","r">>))
                /\ ~TruthyText(speaker_name)
        THEN SpeakerOverview(db["get_conference_schedule"])
        ELSE ScheduleQuery(message, db["get_conference_schedule"])

\* execute_schedule_agent without the September short-circuit
execute_schedule_agent_nosept(message, context, db) ==
    LET message_lower == Lower(message)
        speaker_name == extract_speaker_from_message(message)
    IN  IF /\ (\/ Contains(message_lower, <<"t","e","l","l"," ","m","e"," ","a","b","o","u","t"," ","s","p","e","a","k","e","r">>)
               \/ Contains(message_lower, <<"a","b","o","u","t"," ","s","p","e","a","k","e","r">>))
           /\ ~TruthyText(speaker_name)
        THEN SpeakerOverview(db["get_conference_schedule"])
        ELSE ScheduleQuery(message, db["get_conference_schedule"])

execute_schedule_agent(message, context, db) ==
    LET message_lower == Lower(message)
        speaker_name == extract_speaker_from_message(message)
    IN  IF /\ (\/ Contains(message_lower, <<"t","e","l","l"," ","m","e"," ","a","b","o","u","t"," ","s","p","e","a","k","e","r">>)
               \/ Contains(message_lower, <<"a","b","o","u","t"," ","s","p","e","a","k","e","r">>))
           /\ ~TruthyText(speaker_name)
        THEN SpeakerOverview(db["get_conference_schedule"])
        ELSE IF Contains(message_lower, <<"s","e","p","t","e","m","b","e","r">>)
        THEN [result |-> OutOfRangeReply, calls |-> <<>>]
        ELSE ScheduleQuery(message, db["get_conference_schedule"])

DisplayBusinessForm == <<"DISPLAY_BUSINESS_FORM">>

NetworkingHelp ==
    <<"I can help you with networking and business connections. You can ask me to:\n\n* **Find attendees** - \"Find attendees from Chennai\" or \"Show me all attendees\"\n* **Search businesses** - \"Find healthcare businesses\" or \"Show me IT companies\"\n* **Add your business** - \"I want to add my business\"\n* **View your businesses** - \"Show my business\"\n* **Get business info** - \"Show me businesses in Mumbai\"\n* **Find specific people** - \"Tell me about [person name]\"\n\nWhat networking assistance do you need?">>

\* the business-form test of execute_networking_agent
WantsBusinessForm(message_lower) ==
    \/ Contains(message_lower, <<"a","d","d">>) /\ Contains(message_lower, <<"b","u","s","i","n","e","s","s">>)
    \/ Contains(message_lower, <<"r","e","g","i","s","t","e","r">>) /\ Contains(message_lower, <<"b","u","s","i","n","e","s","s">>)
    \/ Contains(message_lower, <<"n","e","w"," ","b","u","s","i","n","e","s","s">>)
    \/ Contains(message_lower, <<"c","r","e","a","t","e"," ","b","u","s","i","n","e","s","s">>)
    \/ Contains(message_lower, <<"i"," ","w","a","n","t"," ","t","o"," ","a","d","d"," ","m","y"," ","b","u","s","i","n","e","s","s">>)

\* the own-business test of execute_networking_agent, without the identifier
MentionsOwnBusiness(message_lower) ==
    \/ Contains(message_lower, <<"m","y"," ","b","u","s","i","n","e","s","s">>)
    \/ Contains(message_lower, <<"s","h","o","w"," ","a","b","o","u","t"," ","m","y"," ","b","u","s","i","n","e","s","s">>)

\* the sector or location of the general business search
BusinessSearch(message_lower, o) ==
    IF Contains(message_lower, <<"h","e","a","l","t","h","c","a","r","e">>)
    THEN search_businesses_tool(None, "Healthcare", None, o)
    ELSE IF Contains(message_lower, <<"p","h","a","r","m","a">>)
    THEN search_businesses_tool(None, "Pharma & Healthcare", None, o)
    ELSE IF Contains(message_lower, <<"i","t">>) \/ Contains(message_lower, <<"t","e","c","h","n","o","l","o","g","y">>)
    THEN search_businesses_tool(None, "Technology", None, o)
    ELSE IF Contains(message_lower, <<"m","u","m","b","a","i">>)
    THEN search_businesses_tool(None, None, "Mumbai", o)
    ELSE IF Contains(message_lower, <<"c","h","e","n","n","a","i">>)
    THEN search_businesses_tool(None, None, "Chennai", o)
    ELSE IF Contains(message_lower, <<"t","a","m","i","l"," ","n","a","d","u">>) \/ Contains(message_lower, <<"t","a","m","i","l","n","a","d","u">>)
    THEN search_businesses_tool(None, None, "Tamil Nadu", o)
    ELSE search_businesses_tool(None, None, None, o)

\* LaterRules going on to the general business search after the person lookup
\* when that lookup finds nobody
LaterRules_fallthrough(message_lower, person_name, context, db) ==
    LET r == search_attendees_tool(person_name, 10, db["get_user_details_by_name"])
        s == BusinessSearch(message_lower, db["search_businesses"])
    IN  IF /\ TruthyText(person_name)
           /\ (Contains(message_lower, <<"t","e","l","l">>) \/ Contains(message_lower, <<"a","b","o","u","t">>))
        THEN IF db["get_user_details_by_name"] = Rows(<<>>)
                /\ Contains(message_lower, <<"c","o","m","p","a","n">>)
             THEN [result |-> s.result, calls |-> r.calls \o s.calls]
             ELSE r
        ELSE IF Contains(message_lower, <<"a","t","t","e","n","d","e","e">>)
        THEN search_attendees_tool(NoneText, 10, db["get_all_attendees"])
        ELSE IF /\ (\/ Contains(message_lower, <<"b","u","s","i","n","e","s","s">>)
                    \/ Contains(message_lower, <<"c","o","m","p","a","n","y">>)
                    \/ Contains(message_lower, <<"c","o","m","p","a","n","i","e","s">>))
                /\ ~MentionsOwnBusiness(message_lower)
        THEN s
        ELSE IF /\ Contains(message_lower, <<"o","r","g","a","n","i","z","a","t","i","o","n">>)
                /\ Truthy(Get(context, "organization_id", None))
        THEN get_organization_info_tool(context["organization_id"],
                                        db["get_organization_details"])
        ELSE [result |-> NetworkingHelp, calls |-> <<>>]

\* the rules of execute_networking_agent after the own-business rule, on the
\* person name extracted
LaterRules(message_lower, person_name, context, db) ==
    IF /\ TruthyText(person_name)
       /\ (Contains(message_lower, <<"t","e","l","l">>) \/ Contains(message_lower, <<"a","b","o","u","t">>))
    THEN search_attendees_tool(person_name, 10, db["get_user_details_by_name"])
    ELSE IF \/ Contains(message_lower, <<"a","t","t","e","n","d","e","e">>)
            \/ Contains(message_lower, <<"s","h","o","w"," ","a","t","t","e","n","d","e","e","s">>)
            \/ Contains(message_lower, <<"f","i","n","d"," ","a","t","t","e","n","d","e","e","s">>)
    \* with or without "from" and a word after it: every branch lists all
    THEN search_attendees_tool(NoneText, 10, db["get_all_attendees"])
    ELSE IF /\ (\/ Contains(message_lower, <<"b","u","s","i","n","e","s","s">>)
                \/ Contains(message_lower, <<"c","o","m","p","a","n","y">>)
                \/ Contains(message_lower, <<"c","o","m","p","a","n","i","e","s">>))
            /\ ~MentionsOwnBusiness(message_lower)
    THEN BusinessSearch(message_lower, db["search_businesses"])
    ELSE IF /\ Contains(message_lower, <<"o","r","g","a","n","i","z","a","t","i","o","n">>)
            /\ Truthy(Get(context, "organization_id", None))
    THEN get_organization_info_tool(context["organization_id"],
                                    db["get_organization_details"])
    ELSE [result |-> NetworkingHelp, calls |-> <<>>]

\* the person lookup and the rules after it
NetworkingRules3To7(message, context, db) ==
    LaterRules(Lower(message), extract_person_name_from_message(message),
               context, db)

\* execute_networking_agent with the own-business rule tested first
execute_networking_agent_selffirst(message, context, db) ==
    LET message_lower == Lower(message)
    IN  IF /\ MentionsOwnBusiness(message_lower)
           /\ Truthy(Get(context, "customer_id", None))
        THEN get_user_businesses_tool(context["customer_id"],
                                      Get(context, "passenger_name", None),
                                      db["get_user_businesses"])
        ELSE IF WantsBusinessForm(message_lower)
        THEN [result |-> DisplayBusinessForm, calls |-> <<>>]
        ELSE NetworkingRules3To7(message, context, db)

\* execute_networking_agent with the general business search tested before
\* the own-business rule, for every message that names a business
execute_networking_agent_searchfirst(message, context, db) ==
    LET message_lower == Lower(message)
    IN  IF WantsBusinessForm(message_lower)
        THEN [result |-> DisplayBusinessForm, calls |-> <<>>]
        ELSE IF Contains(message_lower, <<"b","u","s","i","n","e","s","s">>)
        THEN BusinessSearch(message_lower, db["search_businesses"])
        ELSE NetworkingRules3To7(message, context, db)

execute_networking_agent(message, context, db) ==
    LET message_lower == Lower(message)
    IN  IF WantsBusinessForm(message_lower)
        THEN [result |-> DisplayBusinessForm, calls |-> <<>>]
        ELSE IF /\ MentionsOwnBusiness(message_lower)
                /\ Truthy(Get(context, "customer_id", None))
        THEN get_user_businesses_tool(context["customer_id"],
                                      Get(context, "passenger_name", None),
                                      db["get_user_businesses"])
        ELSE NetworkingRules3To7(message, context, db)

(***************************************************************************)
(* The data collaborator as the routers see it                             *)
(***************************************************************************)
Sessions ==
    <<[topic |-> "The Future of AI in Travel", speaker_name |-> "Grace Hopper",
       start_time |-> <<"2","0","2","5","-","0","7","-","1","5","T","0","9",":","3","0",":","0","0","Z">>, end_time |-> <<"1","0",":","1","5">>,
       conference_room_name |-> "Grand Ballroom", track_name |-> "AI & ML",
       conference_date |-> "2025-07-15", description |-> "Keynote"],
      [topic |-> "Scaling Cloud Infrastructure for Airlines",
       start_time |-> <<"2","0","2","5","-","0","7","-","1","5","T","1","4",":","0","0",":","0","0">>,
       end_time |-> <<"2","0","2","5","-","0","7","-","1","5","T","1","5",":","0","0",":","0","0">>]>>

\* a session stored without its times
UntimedSessions == <<[topic |-> "Closing", speaker_name |-> "Tony Stark"]>>

Attendees ==
    <<[details |-> [user_name |-> "Asha", company |-> "Acme", email |-> ""]],
      [details |-> [firstName |-> "Ravi", location |-> "Chennai"]],
      [id |-> "U3"]>>

Businesses ==
    <<[details |-> [companyName |-> "Acme", industrySector |-> "Healthcare",
                    location |-> "Mumbai", positionTitle |-> "Founder"]],
      [id |-> "B2"]>>

Organizations ==
    <<[name |-> "Chamber",
       details |-> <<<<<<"o","r","g","_","t","y","p","e">>, "Trade body">>, <<<<"h","e","a","d","_","o","f","f","i","c","e">>, "">>>>]>>

\* every operation fails
DbDown ==
    [op \in {"get_conference_schedule", "get_user_details_by_name",
             "get_all_attendees", "search_businesses", "get_user_businesses",
             "get_organization_details"} |-> Raise]

\* every operation finds nothing
DbEmpty ==
    [op \in DOMAIN DbDown |-> Rows(<<>>)]

DbStocked ==
    [get_conference_schedule |-> Rows(Sessions),
     get_user_details_by_name |-> Rows(SubSeq(Attendees, 1, 1)),
     get_all_attendees |-> Rows(Attendees),
     search_businesses |-> Rows(Businesses),
     get_user_businesses |-> Rows(Businesses),
     get_organization_details |-> Rows(Organizations)]

DbUntimed ==
    [DbStocked EXCEPT !["get_conference_schedule"] = Rows(UntimedSessions)]

DbWorlds == {DbDown, DbEmpty, DbStocked, DbUntimed}

(***************************************************************************)
(* Inputs of the routers                                                   *)
(***************************************************************************)
MaxPhrases == 2

Phrases ==
    <<<<"I"," ","w","a","n","t"," ","t","o"," ","a","d","d"," ","m","y"," ","b","u","s","i","n","e","s","s">>,
      <<"r","e","g","i","s","t","e","r"," ","a"," ","n","e","w"," ","b","u","s","i","n","e","s","s">>,
      <<"c","r","e","a","t","e"," ","b","u","s","i","n","e","s","s">>,
      <<"s","h","o","w"," ","m","y"," ","b","u","s","i","n","e","s","s"," ","i","n"," ","M","u","m","b","a","i">>,
      <<"T","e","l","l"," ","m","e"," ","a","b","o","u","t"," ","G","r","a","c","e"," ","H","o","p","p","e","r">>,
      <<"f","i","n","d"," ","a","t","t","e","n","d","e","e","s"," ","f","r","o","m"," ","C","h","e","n","n","a","i">>,
      <<"h","e","a","l","t","h","c","a","r","e"," ","c","o","m","p","a","n","i","e","s">>,
      <<"o","u","r"," ","o","r","g","a","n","i","z","a","t","i","o","n">>,
      <<"t","e","l","l"," ","m","e"," ","a","b","o","u","t"," ","A","I"," ","a","n","d"," ","c","l","o","u","d"," ","s","e","s","s","i","o","n","s">>,
      <<"w","h","a","t","'","s"," ","o","n"," ","S","e","p","t","e","m","b","e","r"," ","5","t","h">>,
      <<"T","e","l","l"," ","m","e"," ","a","b","o","u","t"," ","s","p","e","a","k","e","r","s">>,
      <<"e","v","e","n","t","s"," ","o","n"," ","J","u","l","y"," ","1","6","t","h"," ","i","n"," ","t","h","e"," ","b","a","l","l","r","o","o","m">>,
      <<"h","e","l","l","o">>>>

\* the messages made of n different phrases, separated by a blank, taken in
\* the order of Phrases (up = TRUE) or in the opposite order
RECURSIVE PhraseMessages(_, _, _)
PhraseMessages(n, last, up) ==
    IF n = 0 THEN {<<>>}
    ELSE UNION {{Phrases[i] \o (IF m = <<>> THEN <<>> ELSE <<" ">> \o m) :
                    m \in PhraseMessages(n - 1, i, up)} :
                i \in IF up THEN (last + 1)..Len(Phrases) ELSE 1..(last - 1)}

RouterMessages ==
    UNION {PhraseMessages(n, 0, TRUE) \cup PhraseMessages(n, Len(Phrases) + 1, FALSE) :
              n \in 1..MaxPhrases}

\* {}
EmptyDict == [k \in {} |-> None]

\* the context dict handed to a router
RouterContexts ==
    {EmptyDict,
     [customer_id |-> "U1", passenger_name |-> "Asha", organization_id |-> "O1"],
     [customer_id |-> "U2", passenger_name |-> None]}

\* the frame of a call of a router, an extraction or a handler: what it was
\* given (message and context, or the handler's arguments), how the
\* collaborator behaves (db), and what came back
IdleAgent ==
    [pc |-> "idle", fn |-> None, message |-> <<>>, context |-> EmptyDict,
     args |-> EmptyDict, db |-> EmptyDict, result |-> NoneText, calls |-> <<>>]

(***************************************************************************)
(* main.py: load_user_context.  f is the frame of the call: the session it *)
(* was handed, the account number, and what its lookups came back with.    *)
(***************************************************************************)
\* the assignments made for a user record that was found
LoadContext(h, a, user) ==
    [h EXCEPT ![a].context =
        [@ EXCEPT
            !.passenger_name = Get(user, "name", None),
            !.customer_id = Get(user, "id", None),
            !.account_number = Get(user, "account_number", None),
            !.customer_email = Get(user, "email", None),
            !.is_conference_attendee = Get(user, "is_conference_attendee", "True"),
            !.conference_name = Get(user, "conference_name", "Business Conference 2025"),
            !.user_company_name = Get(user, "company", None),
            !.user_location = Get(user, "location", None),
            !.user_registration_id = Get(user, "registration_id", None),
            !.user_conference_package = Get(user, "conference_package", None),
            !.user_primary_stream = Get(user, "primary_stream", None),
            !.user_secondary_stream = Get(user, "secondary_stream", None)]]

IdleLoader ==
    [pc |-> "idle", conversation |-> 0, account_number |-> None,
     outcomes |-> <<>>, ret |-> None]

\* LoadLookupReturns taking a miss of both lookups for an empty user record
LoadLookupReturns_defaults(h, f, outcome) ==
    LET g == [f EXCEPT !.outcomes = Append(@, outcome.kind)]
    IN  IF outcome.kind = "raise"
        THEN [heap |-> h, loader |-> [g EXCEPT !.pc = "returned", !.ret = "False"]]
        ELSE IF outcome.kind = "none" /\ f.pc = "await_reg"
        THEN [heap |-> h, loader |-> [g EXCEPT !.pc = "await_qr"]]
        ELSE [heap |-> LoadContext(h, f.conversation,
                                   IF outcome.kind = "user" THEN outcome.user
                                   ELSE EmptyDict),
              loader |-> [g EXCEPT !.pc = "returned", !.ret = "True"]]

\* a lookup of load_user_context comes back: a fault ends the call with False, a
\* miss of the first lookup leads to the second, a user found is copied into
\* the context
LoadLookupReturns(h, f, outcome) ==
    LET g == [f EXCEPT !.outcomes = Append(@, outcome.kind)]
    IN  IF outcome.kind = "raise"
        THEN [heap |-> h, loader |-> [g EXCEPT !.pc = "returned", !.ret = "False"]]
        ELSE IF outcome.kind = "none" /\ f.pc = "await_reg"
        THEN [heap |-> h, loader |-> [g EXCEPT !.pc = "await_qr"]]
        ELSE IF outcome.kind = "user"
        THEN [heap |-> LoadContext(h, f.conversation, outcome.user),
              loader |-> [g EXCEPT !.pc = "returned", !.ret = "True"]]
        ELSE [heap |-> h, loader |-> [g EXCEPT !.pc = "returned", !.ret = "False"]]

(***************************************************************************)
(* Spec: the dispatcher                                                    *)
(***************************************************************************)
Init ==
    /\ conversations = <<>>
    /\ heap = <<>>
    /\ task = [p \in Tasks |-> IdleTask]
    /\ response = NoResponse
    /\ started = 0
    /\ agent = IdleAgent
    /\ loader = IdleLoader

\* a task handed a request runs to its first await before any other task is
\* resumed: receiving a request touches no shared state
NoneReceived == \A q \in Tasks : task[q].pc # "received"

\* a POST /chat arrives and is handed to a task
receive_request(p) ==
    /\ task[p].pc = "idle"
    /\ NoneReceived
    /\ \A q \in Tasks : q < p => task[q].pc # "idle"
    /\ started < MaxTurns
    /\ \E request \in Requests :
          task' = [task EXCEPT ![p] =
                      [IdleTask EXCEPT !.pc = "received", !.request = request]]
    /\ started' = started + 1
    /\ UNCHANGED <<conversations, heap, response, agent, loader>>

chat_endpoint(p) ==
    /\ task[p].pc = "received"
    /\ LET r == BeginRequest(task[p])
       IN  /\ conversations' = r.conversations
           /\ heap' = r.heap
           /\ task' = [task EXCEPT ![p] = r.task]
           /\ response' = r.response
    /\ UNCHANGED <<started, agent, loader>>

registration_lookup_returns(p) ==
    /\ task[p].pc = "await_reg"
    /\ NoneReceived
    /\ \E outcome \in LookupOutcomes :
          LET r == RegReturns(heap, task[p], outcome)
          IN  /\ heap' = r.heap
              /\ task' = [task EXCEPT ![p] = r.task]
              /\ response' = r.response
    /\ UNCHANGED <<conversations, started, agent, loader>>

qr_lookup_returns(p) ==
    /\ task[p].pc = "await_qr"
    /\ NoneReceived
    /\ \E outcome \in LookupOutcomes :
          LET r == QrReturns(heap, task[p], outcome)
          IN  /\ heap' = r.heap
              /\ task' = [task EXCEPT ![p] = r.task]
              /\ response' = r.response
    /\ UNCHANGED <<conversations, started, agent, loader>>

add_business_returns(p) ==
    /\ task[p].pc = "await_add"
    /\ NoneReceived
    /\ \E outcome \in AddOutcomes :
          LET r == AddReturns(heap, task[p], outcome)
          IN  /\ heap' = r.heap
              /\ task' = [task EXCEPT ![p] = r.task]
              /\ response' = r.response
    /\ UNCHANGED <<conversations, started, agent, loader>>

Next ==
    \E p \in Tasks :
        \/ receive_request(p)
        \/ chat_endpoint(p)
        \/ registration_lookup_returns(p)
        \/ qr_lookup_returns(p)
        \/ add_business_returns(p)

Spec == Init /\ [][Next]_vars

(***************************************************************************)
(* RouterSpec: the intent routers and the track extraction of main.py, on  *)
(* a message and a context, against every behaviour of the collaborator    *)
(***************************************************************************)
RouterInit ==
    /\ conversations = <<>>
    /\ heap = <<>>
    /\ task = [p \in Tasks |-> IdleTask]
    /\ response = NoResponse
    /\ started = 0
    /\ loader = IdleLoader
    /\ \E message \in RouterMessages : \E context \in RouterContexts :
          agent = [IdleAgent EXCEPT !.pc = "ready", !.message = message,
                                    !.context = context]

\* the frame of a call of fn, under the collaborator db, that came back with r
ReturnedFrom(fn, db, r) ==
    [agent EXCEPT !.pc = "returned", !.fn = fn, !.db = db,
                  !.result = r.result, !.calls = r.calls]

networking_agent_runs ==
    /\ agent.pc = "ready"
    /\ \E db \in DbWorlds :
          agent' = ReturnedFrom("execute_networking_agent", db,
                       execute_networking_agent(agent.message, agent.context, db))
    /\ UNCHANGED <<conversations, heap, task, response, started, loader>>

schedule_agent_runs ==
    /\ agent.pc = "ready"
    /\ \E db \in DbWorlds :
          agent' = ReturnedFrom("execute_schedule_agent", db,
                       execute_schedule_agent(agent.message, agent.context, db))
    /\ UNCHANGED <<conversations, heap, task, response, started, loader>>

track_extraction_runs ==
    /\ agent.pc = "ready"
    /\ agent' = ReturnedFrom("extract_track_from_message", EmptyDict,
                    [result |-> extract_track_from_message(agent.message),
                     calls |-> <<>>])
    /\ UNCHANGED <<conversations, heap, task, response, started, loader>>

RouterNext ==
    \/ networking_agent_runs
    \/ schedule_agent_runs
    \/ track_extraction_runs

RouterSpec == RouterInit /\ [][RouterNext]_vars

(***************************************************************************)
(* LoaderSpec: load_user_context on the sessions of a store, one call at a *)
(* time, against every outcome of the two identity lookups                 *)
(***************************************************************************)
\* a session as its callers may have left it: new, after a turn, or after a
\* turn and an earlier load
SessionSnapshots(cid) ==
    LET fresh == [id |-> cid, context |-> AirlineAgentContext,
                  current_agent |-> "Triage Agent", messages |-> <<>>,
                  events |-> <<>>, account_number |-> None]
        turned == [fresh EXCEPT
                      !.messages = <<[content |-> MsgNetworking, agent |-> "User"],
                                     [content |-> NetworkingResponse,
                                      agent |-> "Networking Agent"]>>,
                      !.current_agent = "Networking Agent"]
    IN  {fresh, turned,
         [turned EXCEPT !.context = [@ EXCEPT !.customer_id = "U2",
                                              !.passenger_name = "Ravi",
                                              !.is_conference_attendee = "True"]]}

LoaderInit ==
    /\ conversations = ("c1" :> 1) @@ ("c2" :> 2)
    /\ \E s1 \in SessionSnapshots("c1") : \E s2 \in SessionSnapshots("c2") :
          heap = <<s1, s2>>
    /\ task = [p \in Tasks |-> IdleTask]
    /\ response = NoResponse
    /\ started = 0
    /\ loader = IdleLoader
    /\ agent = IdleAgent

\* load_user_context(conversation, account_number) is called and awaits the
\* lookup by registration id
load_user_context(a, account_number) ==
    /\ loader.pc \in {"idle", "returned"}
    /\ loader' = [IdleLoader EXCEPT !.pc = "await_reg", !.conversation = a,
                                    !.account_number = account_number]
    /\ UNCHANGED <<conversations, heap, task, response, started, agent>>

load_registration_returns ==
    /\ loader.pc = "await_reg"
    /\ \E outcome \in LookupOutcomes :
          LET r == LoadLookupReturns(heap, loader, outcome)
          IN  heap' = r.heap /\ loader' = r.loader
    /\ UNCHANGED <<conversations, task, response, started, agent>>

load_qr_returns ==
    /\ loader.pc = "await_qr"
    /\ \E outcome \in LookupOutcomes :
          LET r == LoadLookupReturns(heap, loader, outcome)
          IN  heap' = r.heap /\ loader' = r.loader
    /\ UNCHANGED <<conversations, task, response, started, agent>>

LoaderNext ==
    \/ \E a \in DOMAIN heap : \E account_number \in {"R1", "Q7"} :
          load_user_context(a, account_number)
    \/ load_registration_returns
    \/ load_qr_returns

LoaderSpec == LoaderInit /\ [][LoaderNext]_vars


(***************************************************************************)
(* CoreSpec: the functions of the routing core of main.py, each called on  *)
(* its own: an intent router on a message and a context, or a capability   *)
(* handler on its arguments and load_user_context on a stored session,     *)
(* against every behaviour of the collaborator                             *)
(***************************************************************************)
CoreInit ==
    /\ task = [p \in Tasks |-> IdleTask]
    /\ response = NoResponse
    /\ started = 0
    /\ loader = IdleLoader
    /\ \/ /\ conversations = <<>>
          /\ heap = <<>>
          /\ \E message \in PhraseMessages(1, 0, TRUE) :
                \E context \in RouterContexts :
                    agent = [IdleAgent EXCEPT !.pc = "ready",
                                              !.message = message,
                                              !.context = context]
       \/ /\ conversations = ("c1" :> 1)
          /\ \E s \in SessionSnapshots("c1") : heap = <<s>>
          /\ agent = IdleAgent

schedule_tool_runs ==
    /\ agent.pc = "idle"
    /\ \E speaker_name \in {NoneText, <<"G","r","a","c","e"," ","H","o","p","p","e","r">>} :
       \E track_name \in {None, "AI & ML"} :
       \E conference_date \in {None, "", "2025-07-16", "15/07/2025"} :
       \E o \in {Raise, Rows(<<>>), Rows(Sessions), Rows(UntimedSessions)} :
          agent' = [ReturnedFrom("get_conference_schedule_tool",
                        "get_conference_schedule" :> o,
                        get_conference_schedule_tool(speaker_name, None, None,
                            track_name, conference_date, o))
                    EXCEPT !.args = [speaker_name |-> speaker_name,
                                     track_name |-> track_name,
                                     conference_date |-> conference_date]]
    /\ UNCHANGED <<conversations, heap, task, response, started, loader>>

attendees_tool_runs ==
    /\ agent.pc = "idle"
    /\ \E name \in {NoneText, <<>>, <<"A","s","h","a">>} :
       \E o \in {Raise, Rows(<<>>), Rows(Attendees)} :
          agent' = [ReturnedFrom("search_attendees_tool",
                        ("get_user_details_by_name" :> o) @@ ("get_all_attendees" :> o),
                        search_attendees_tool(name, 10, o))
                    EXCEPT !.args = [name |-> name]]
    /\ UNCHANGED <<conversations, heap, task, response, started, loader>>

businesses_tool_runs ==
    /\ agent.pc = "idle"
    /\ \E sector \in {None, "Healthcare"} :
       \E location \in {None, "Mumbai"} :
       \E o \in {Raise, Rows(<<>>), Rows(Businesses)} :
          agent' = [ReturnedFrom("search_businesses_tool",
                        "search_businesses" :> o,
                        search_businesses_tool(None, sector, location, o))
                    EXCEPT !.args = [sector |-> sector, location |-> location]]
    /\ UNCHANGED <<conversations, heap, task, response, started, loader>>

user_businesses_tool_runs ==
    /\ agent.pc = "idle"
    /\ \E user_id \in {None, "", "U1"} :
       \E user_name \in {None, "Asha"} :
       \E o \in {Raise, Rows(<<>>), Rows(Businesses)} :
          agent' = [ReturnedFrom("get_user_businesses_tool",
                        "get_user_businesses" :> o,
                        get_user_businesses_tool(user_id, user_name, o))
                    EXCEPT !.args = [user_id |-> user_id, user_name |-> user_name]]
    /\ UNCHANGED <<conversations, heap, task, response, started, loader>>

add_business_tool_runs ==
    /\ agent.pc = "idle"
    /\ \E user_id \in {None, "", "U1"} :
       \E website \in {None, "https://acme.example"} :
       \E o \in {Raise, Rows(<<"True">>), Rows(<<"False">>)} :
          agent' = [ReturnedFrom("add_business_tool",
                        "add_business" :> o,
                        add_business_tool(user_id, "Acme", "Healthcare",
                            "Devices", "Mumbai", "Founder", "Private Limited",
                            "2019", "Monitors", "Patient monitors", website, o))
                    EXCEPT !.args = [user_id |-> user_id, website |-> website]]
    /\ UNCHANGED <<conversations, heap, task, response, started, loader>>

organization_tool_runs ==
    /\ agent.pc = "idle"
    /\ \E organization_id \in {None, "", "O1"} :
       \E o \in {Raise, Rows(<<>>), Rows(Organizations)} :
          agent' = [ReturnedFrom("get_organization_info_tool",
                        "get_organization_details" :> o,
                        get_organization_info_tool(organization_id, o))
                    EXCEPT !.args = [organization_id |-> organization_id]]
    /\ UNCHANGED <<conversations, heap, task, response, started, loader>>

CoreNext ==
    \/ networking_agent_runs
    \/ schedule_agent_runs
    \/ schedule_tool_runs
    \/ attendees_tool_runs
    \/ businesses_tool_runs
    \/ user_businesses_tool_runs
    \/ add_business_tool_runs
    \/ organization_tool_runs
    \/ \E a \in DOMAIN heap : \E account_number \in {"R1", "Q7"} :
          load_user_context(a, account_number)
    \/ load_registration_returns
    \/ load_qr_returns

CoreSpec == CoreInit /\ [][CoreNext]_vars

(***************************************************************************)
(* Properties of the dispatcher                                            *)
(***************************************************************************)
HandlerNames == {"Triage Agent", "Schedule Agent", "Networking Agent"}

InFlight(p) == task[p].pc \notin {"idle", "received"}

\* the session a running task holds
Session(p) == heap[task[p].conversation]

\* the step ends task p's turn with a normal response
Completes(p) ==
    /\ task[p].pc # "idle"
    /\ task'[p].pc = "idle"
    /\ response'.status = "200"

\* the collaborator calls task p issues in the step
Issued(p) ==
    IF task'[p].pc # "idle" /\ Len(task'[p].calls) > Len(task[p].calls)
    THEN {task'[p].calls[i] : i \in (Len(task[p].calls) + 1)..Len(task'[p].calls)}
    ELSE {}

IsLookup(c) == c.op \in {"get_user_by_registration_id", "get_user_by_qr_code"}

\* C1: for every conversation id in the store, get_or_create_conversation
\* returns the stored session object itself and changes neither the store nor
\* any session (history, context, current agent), whatever account_number it
\* is given; and the reference a running task holds is the stored one.
C1_KnownIdReturnsStoredSession ==
    /\ \A cid \in DOMAIN conversations : \A acct \in AccountNumbers \cup {"", "R9"} :
          LET g == get_or_create_conversation(cid, acct)
          IN  /\ g.ref = conversations[cid]
              /\ g.conversations = conversations
              /\ g.heap = heap
    /\ \A p \in Tasks :
          InFlight(p) => conversations[Session(p).id] = task[p].conversation

\* a task is running on a session fetched from the store, which has a history,
\* a loaded context and a handler, under another account_number than the one
\* captured at creation
C1_Witness ==
    \E p \in Tasks :
        /\ InFlight(p)
        /\ Session(p).messages # <<>>
        /\ Truthy(Session(p).context.customer_id)
        /\ Session(p).current_agent # "Triage Agent"
        /\ task[p].request.account_number # Session(p).account_number

\* C2: for an id not in the store, or no id (None, ""), exactly one session is
\* added, under the given id or a generated one, with current agent Triage
\* Agent, empty history and event log and every context field unset; no
\* stored session and no store entry is changed.
C2_UnknownIdCreatesFreshSession ==
    \A cid \in {None, "", "c1", "c2"} : \A acct \in AccountNumbers :
        (~Truthy(cid) \/ cid \notin DOMAIN conversations) =>
            LET g   == get_or_create_conversation(cid, acct)
                new == DOMAIN g.conversations \ DOMAIN conversations
                s   == g.heap[g.ref]
            IN  /\ Cardinality(new) = 1
                /\ DOMAIN conversations \subseteq DOMAIN g.conversations
                /\ Truthy(cid) => new = {cid}
                /\ \A c \in new : g.conversations[c] = g.ref /\ s.id = c
                /\ \A c \in DOMAIN conversations : g.conversations[c] = conversations[c]
                /\ Len(g.heap) = Len(heap) + 1
                /\ g.ref = Len(heap) + 1
                /\ \A a \in 1..Len(heap) : g.heap[a] = heap[a]
                /\ s.current_agent = "Triage Agent"
                /\ s.messages = <<>>
                /\ s.events = <<>>
                /\ \A f \in DOMAIN s.context : s.context[f] = None

\* a task holds a session it has just created, empty, while the store holds
\* another session with a history and a loaded context
C2_Witness ==
    \E p \in Tasks :
        /\ task[p].pc = "await_reg"
        /\ Session(p).messages = <<>>
        /\ Session(p).current_agent = "Triage Agent"
        /\ \E a \in 1..Len(heap) :
              /\ a # task[p].conversation
              /\ heap[a].messages # <<>>
              /\ Truthy(heap[a].context.customer_id)

\* C3: the step that completes a turn appends exactly two entries to the end
\* of the session's history, the request's message with origin User and then
\* one reply with a handler origin, and changes no earlier entry and no other
\* session's history.
C3_TurnAppendsOneExchange ==
    [][\A p \in Tasks :
          Completes(p) =>
              LET cid == response'.conversation_id
                  ref == conversations'[cid]
                  old == IF cid \in DOMAIN conversations
                         THEN heap[conversations[cid]].messages ELSE <<>>
                  new == heap'[ref].messages
              IN  /\ Len(new) = Len(old) + 2
                  /\ SubSeq(new, 1, Len(old)) = old
                  /\ new[Len(old) + 1] =
                         [content |-> task[p].request.message, agent |-> "User"]
                  /\ new[Len(old) + 2].agent \in HandlerNames
                  /\ \A a \in 1..Len(heap) :
                        a # ref => heap'[a].messages = heap[a].messages
      ]_vars

\* two turns with the same message on one conversation: four entries, the
\* first exchange still there
C3_Witness ==
    \E a \in 1..Len(heap) :
        /\ Len(heap[a].messages) = 4
        /\ heap[a].messages[1] = heap[a].messages[3]
        /\ heap[a].messages[1].agent = "User"
        /\ heap[a].messages[2].agent \in HandlerNames
        /\ heap[a].messages[4].agent \in HandlerNames

\* C4: a task issues an identity lookup only for a request that carries an
\* account_number: the lookup by registration id only at the start of its
\* turn and only if the session's customer_id is then unset, the lookup by QR
\* code only after its own lookup by registration id came back empty.  A turn
\* that starts on a session whose customer_id is set issues no lookup.
C4_NoLookupOnceLoaded ==
    [][\A p \in Tasks :
          /\ \A c \in Issued(p) :
                IsLookup(c) =>
                    /\ Truthy(task[p].request.account_number)
                    /\ c.arg = task[p].request.account_number
                    /\ \/ /\ task[p].pc = "received"
                          /\ c.op = "get_user_by_registration_id"
                          /\ LET cid == task[p].request.conversation_id
                             IN  cid \in DOMAIN conversations =>
                                   ~Truthy(heap[conversations[cid]].context.customer_id)
                       \/ /\ task[p].pc = "await_reg"
                          /\ c.op = "get_user_by_qr_code"
                          /\ task[p].calls[1].op = "get_user_by_registration_id"
          /\ (/\ task[p].pc = "received"
              /\ task[p].request.conversation_id \in DOMAIN conversations
              /\ Truthy(heap[conversations[task[p].request.conversation_id]]
                            .context.customer_id))
             => /\ task'[p].pc \notin {"await_reg", "await_qr"}
                /\ \A c \in Issued(p) : ~IsLookup(c)
      ]_vars

\* a turn whose request carries an account_number is past the guard on a
\* session with customer_id set, and has issued no lookup
C4_Witness ==
    \E p \in Tasks :
        /\ InFlight(p)
        /\ Truthy(task[p].request.account_number)
        /\ Truthy(Session(p).context.customer_id)
        /\ \A i \in 1..Len(task[p].calls) : ~IsLookup(task[p].calls[i])

\* a line after the first has a recognized label before its first colon
HasRecognizedLabel(message) ==
    LET lines == Split(message, "\n")
    IN  \E n \in 2..Len(lines) :
          \E k \in 1..Len(field_mapping) :
            \E i \in 1..Len(lines[n]) :
              /\ lines[n][i] = ":"
              /\ \A j \in 1..(i - 1) : lines[n][j] # ":"
              /\ Strip(SubSeq(lines[n], 1, i - 1)) = field_mapping[k][1]

\* for each message of the requests: whether it contains the marker sentence,
\* and whether it has a recognized label
SubmissionTable ==
    [message \in ApiMessages |->
        [marker |-> Contains(message, FormMarker),
         label  |-> HasRecognizedLabel(message)]]

\* C8: in a turn whose message contains the marker sentence, add_business is
\* called only if a recognized label was decoded and the context's
\* customer_id is set, and then for that customer_id; a turn that ends
\* without that call had no label or no customer_id, appends the fixed
\* rejection message and has made no add_business call.
C8_AddBusinessOnlyWithFieldsAndIdentity ==
    [][\A p \in Tasks :
          LET message == task[p].request.message
          IN  /\ \A c \in Issued(p) :
                    c.op = "add_business" =>
                        /\ SubmissionTable[message].marker
                        /\ SubmissionTable[message].label
                        /\ Truthy(heap'[task'[p].conversation].context.customer_id)
                        /\ c.arg = heap'[task'[p].conversation].context.customer_id
              /\ (Completes(p) /\ SubmissionTable[message].marker
                    /\ task[p].pc # "await_add") =>
                    LET s == heap'[conversations'[response'.conversation_id]]
                    IN  /\ ~(SubmissionTable[message].label
                              /\ Truthy(s.context.customer_id))
                        /\ s.messages[Len(s.messages)] =
                               [content |-> RejectReply, agent |-> "Networking Agent"]
                        /\ \A i \in 1..Len(task[p].calls) :
                              task[p].calls[i].op # "add_business"
      ]_vars

\* a submission with the label "Company Name" was rejected on a session with
\* no customer_id
C8_Witness ==
    \E a \in 1..Len(heap) :
        /\ heap[a].context.customer_id = None
        /\ Len(heap[a].messages) >= 2
        /\ heap[a].messages[Len(heap[a].messages) - 1].content = MsgFormAcme
        /\ heap[a].messages[Len(heap[a].messages)].content = RejectReply

(***************************************************************************)
(* Properties of load_user_context                                         *)
(***************************************************************************)
\* C5: when the lookup by registration id and the lookup by QR code both come
\* back not-found, load_user_context returns False, and no step of the call
\* changes the store or any session: context, message history and current
\* agent are as they were.
C5_BothMissesChangeNothing ==
    [][/\ (loader.pc = "await_reg" /\ loader'.outcomes = <<"none">>)
            => (heap' = heap /\ conversations' = conversations)
       /\ (loader.pc = "await_qr" /\ loader'.outcomes = <<"none", "none">>)
            => /\ loader'.pc = "returned"
               /\ loader'.ret = "False"
               /\ heap' = heap
               /\ conversations' = conversations]_vars

\* a call on a session with a history and a loaded context ended after two misses
C5_Witness ==
    /\ loader.pc = "returned"
    /\ loader.outcomes = <<"none", "none">>
    /\ loader.ret = "False"
    /\ heap[loader.conversation].messages # <<>>
    /\ heap[loader.conversation].context.customer_id = "U2"

(***************************************************************************)
(* Properties of the intent routers                                        *)
(***************************************************************************)
Returned(fn) == agent.pc = "returned" /\ agent.fn = fn

\* a business-creation cue: "add" and "business", "register" and "business",
\* "new business", or "create business"
CreationCue(message_lower) ==
    \/ Contains(message_lower, <<"a","d","d">>) /\ Contains(message_lower, <<"b","u","s","i","n","e","s","s">>)
    \/ Contains(message_lower, <<"r","e","g","i","s","t","e","r">>) /\ Contains(message_lower, <<"b","u","s","i","n","e","s","s">>)
    \/ Contains(message_lower, <<"n","e","w"," ","b","u","s","i","n","e","s","s">>)
    \/ Contains(message_lower, <<"c","r","e","a","t","e"," ","b","u","s","i","n","e","s","s">>)

\* C6: for every message whose lowercased text has a business-creation cue,
\* execute_networking_agent returns the sentinel DISPLAY_BUSINESS_FORM and makes
\* no collaborator call, whatever else the message says and whatever the context.
C6_CreationCueReturnsFormSentinel ==
    (Returned("execute_networking_agent") /\ CreationCue(Lower(agent.message)))
        => (agent.result = <<"DISPLAY_BUSINESS_FORM">> /\ agent.calls = <<>>)

\* a message with a creation cue, an own-business cue and a location, from an
\* identified user, got the sentinel
C6_Witness ==
    /\ Returned("execute_networking_agent")
    /\ agent.message = <<"s","h","o","w"," ","m","y"," ","b","u","s","i","n","e","s","s"," ","i","n"," ","M","u","m","b","a","i"," ","I"," ","w","a","n","t"," ","t","o"," ","a","d","d"," ","m","y"," ","b","u","s","i","n","e","s","s">>
    /\ Get(agent.context, "customer_id", None) = "U1"
    /\ agent.result = <<"DISPLAY_BUSINESS_FORM">>

\* a sector or location keyword of the general business search
GeneralBusinessCue(message_lower) ==
    \E w \in {<<"h","e","a","l","t","h","c","a","r","e">>, <<"p","h","a","r","m","a">>, <<"t","e","c","h","n","o","l","o","g","y">>, <<"m","u","m","b","a","i">>,
              <<"c","h","e","n","n","a","i">>, <<"t","a","m","i","l"," ","n","a","d","u">>, <<"t","a","m","i","l","n","a","d","u">>} :
        Contains(message_lower, w)

\* C7: a message with "my business" and a general-business cue (a location or a
\* sector) and no creation cue, with a non-null identifier in the context, is
\* answered by the own-business rule: exactly one collaborator call, the
\* user-business lookup for that identifier, and no general business search.
C7_OwnBusinessBeforeGeneralSearch ==
    (/\ Returned("execute_networking_agent")
     /\ Contains(Lower(agent.message), <<"m","y"," ","b","u","s","i","n","e","s","s">>)
     /\ GeneralBusinessCue(Lower(agent.message))
     /\ ~CreationCue(Lower(agent.message))
     /\ Get(agent.context, "customer_id", None) # None)
        => /\ Len(agent.calls) = 1
           /\ agent.calls[1].op = "get_user_businesses"
           /\ agent.calls[1].args.user_id = agent.context["customer_id"]

\* "show my business in Mumbai" from an identified user was answered with that
\* user's businesses
C7_Witness ==
    /\ Returned("execute_networking_agent")
    /\ agent.message = <<"s","h","o","w"," ","m","y"," ","b","u","s","i","n","e","s","s"," ","i","n"," ","M","u","m","b","a","i">>
    /\ Get(agent.context, "customer_id", None) = "U1"
    /\ agent.calls = <<[op |-> "get_user_businesses", args |-> [user_id |-> "U1"]]>>
    /\ agent.result[1] = "Found "

\* C9: a message that mentions September, other than a generic "about speaker"
\* request with no speaker resolved, gets from execute_schedule_agent the fixed
\* out-of-range message naming July 15-16, 2025, with no collaborator call,
\* whatever speaker, track, room or topic the message holds.
C9_SeptemberIsOutOfRange ==
    (/\ Returned("execute_schedule_agent")
     /\ Contains(Lower(agent.message), <<"s","e","p","t","e","m","b","e","r">>)
     /\ ~(/\ Contains(Lower(agent.message), <<"a","b","o","u","t"," ","s","p","e","a","k","e","r">>)
          /\ extract_speaker_from_message(agent.message) = NoneText))
        => /\ agent.result = <<"I don't have any conference sessions scheduled for September. The Business Conference 2025 is scheduled for July 15-16, 2025. Would you like to see the sessions for those dates instead?">>
           /\ agent.calls = <<>>

\* a September message that also names a speaker, a track and a room was
\* answered without a query
C9_Witness ==
    /\ Returned("execute_schedule_agent")
    /\ agent.message \in
          {<<"w","h","a","t","'","s"," ","o","n"," ","S","e","p","t","e","m","b","e","r"," ","5","t","h"," ","T","e","l","l"," ","m","e"," ","a","b","o","u","t"," ","G","r","a","c","e"," ","H","o","p","p","e","r">>,
           <<"w","h","a","t","'","s"," ","o","n"," ","S","e","p","t","e","m","b","e","r"," ","5","t","h"," ","e","v","e","n","t","s"," ","o","n"," ","J","u","l","y"," ","1","6","t","h"," ","i","n"," ","t","h","e"," ","b","a","l","l","r","o","o","m">>}
    /\ extract_speaker_from_message(agent.message) # NoneText
         \/ extract_room_from_message(agent.message) # None
    /\ agent.calls = <<>>

\* the entries of track_keywords with a keyword in the message
TrackHits(message_lower) ==
    {k \in 1..Len(track_keywords) :
        \E j \in 1..Len(track_keywords[k][2]) :
            Contains(message_lower, track_keywords[k][2][j])}

\* C10: extract_track_from_message returns the canonical value of the first
\* entry, in declaration order, with a keyword occurring in the lowercased
\* message, and no-match when there is none; a message with a keyword of
\* "AI & ML" and a keyword of "Cloud Computing" resolves to "AI & ML".
C10_FirstDeclaredTrackWins ==
    Returned("extract_track_from_message") =>
        LET message_lower == Lower(agent.message)
            hits == TrackHits(message_lower)
        IN  /\ hits = {} => agent.result = None
            /\ hits # {} =>
                  \E k \in hits :
                      /\ \A j \in hits : k <= j
                      /\ agent.result = track_keywords[k][1]
            /\ (/\ \E w \in {<<"a","i">>, <<"m","l">>, <<"m","a","c","h","i","n","e"," ","l","e","a","r","n","i","n","g">>,
                             <<"a","r","t","i","f","i","c","i","a","l"," ","i","n","t","e","l","l","i","g","e","n","c","e">>, <<"a","i"," ","&"," ","m","l">>} :
                       Contains(message_lower, w)
                /\ \E w \in {<<"c","l","o","u","d">>, <<"c","o","m","p","u","t","i","n","g">>, <<"c","l","o","u","d"," ","c","o","m","p","u","t","i","n","g">>} :
                       Contains(message_lower, w))
                  => agent.result = "AI & ML"

\* "tell me about AI and cloud sessions" resolved to "AI & ML"
C10_Witness ==
    /\ Returned("extract_track_from_message")
    /\ agent.message = <<"t","e","l","l"," ","m","e"," ","a","b","o","u","t"," ","A","I"," ","a","n","d"," ","c","l","o","u","d"," ","s","e","s","s","i","o","n","s">>
    /\ agent.result = "AI & ML"

(***************************************************************************)
(* Properties of the dispatcher: faults, concurrent turns, responses       *)
(***************************************************************************)
\* the step ends task p's turn, with a response or with the internal error
Ends(p) == task[p].pc # "idle" /\ task'[p].pc = "idle"

\* C11: in a turn no collaborator operation (lookup by registration id, lookup
\* by QR code, add_business) is called twice, and every turn, also one in which
\* a collaborator call raised, ends with a normal response after a reply to the
\* turn's message was appended to the history, never with the internal error.
C11_FaultsDegradeToReply ==
    [][\A p \in Tasks :
          /\ \A i, j \in 1..Len(task'[p].calls) :
                task'[p].calls[i].op = task'[p].calls[j].op => i = j
          /\ Ends(p) =>
                /\ response'.status = "200"
                /\ LET s == heap'[conversations'[response'.conversation_id]]
                       n == Len(s.messages)
                   IN  /\ n >= 2
                       /\ s.messages[n - 1] =
                              [content |-> task[p].request.message, agent |-> "User"]
                       /\ s.messages[n].agent \in HandlerNames
      ]_vars

\* C12: when a turn whose message is not a structured business submission
\* ends, the reply appended under the label Schedule Agent is what
\* execute_schedule_agent returns for the turn's message and the session's
\* context, and the reply appended under the label Networking Agent is what
\* execute_networking_agent returns for them, for some behaviour of the
\* collaborator.
C12_ReplyIsRouterResult ==
    [][\A p \in Tasks :
          (Completes(p) /\ ~Contains(task[p].request.message, FormMarker)) =>
              LET message == task[p].request.message
                  s       == heap'[conversations'[response'.conversation_id]]
                  reply   == s.messages[Len(s.messages)]
              IN  /\ reply.agent = "Schedule Agent" =>
                        \E db \in DbWorlds :
                            reply.content =
                                execute_schedule_agent(message, s.context, db).result
                  /\ reply.agent = "Networking Agent" =>
                        \E db \in DbWorlds :
                            reply.content =
                                execute_networking_agent(message, s.context, db).result
      ]_vars

\* the replies chat_endpoint gives to each message of the requests, with their
\* origin labels
ReplyTable ==
    [message \in ApiMessages |->
        IF Contains(message, FormMarker)
        THEN {[content |-> c, agent |-> "Networking Agent"] :
                 c \in {RejectReply, IssueReply, ErrorReply,
                        SuccessReply(ParseBusinessData(message))}}
        ELSE {[content |-> Route(message).response,
               agent |-> Route(message).agent_name]}]

RepliesTo(message) == ReplyTable[message]

\* C13: under every interleaving of turns, each step changes the history of
\* each session by exactly two entries per turn that completes on it in the
\* step, appended at its end: the turn's message and then a reply to that
\* message (so the history holds two entries per completed turn, none lost);
\* a step of a turn that is still awaiting a collaborator appends nothing;
\* and every history is a sequence of pairs, a user message immediately
\* followed by a reply to it.
C13_NoAppendLost ==
    [][\A a \in 1..Len(heap') :
          LET old  == IF a <= Len(heap) THEN heap[a].messages ELSE <<>>
              new  == heap'[a].messages
              done == {p \in Tasks :
                          /\ Completes(p)
                          /\ conversations'[response'.conversation_id] = a}
          IN  /\ Len(new) = Len(old) + 2 * Cardinality(done)
              /\ SubSeq(new, 1, Len(old)) = old
              /\ \A p \in done :
                    /\ new[Len(old) + 1] =
                           [content |-> task[p].request.message, agent |-> "User"]
                    /\ new[Len(old) + 2] \in RepliesTo(task[p].request.message)
              /\ \A i \in 1..Len(new) :
                    i % 2 = 1 =>
                        /\ i + 1 <= Len(new)
                        /\ new[i].agent = "User"
                        /\ new[i + 1] \in RepliesTo(new[i].content)
      ]_vars

\* the second task, which was handed its request while the first was awaiting
\* a collaborator, is itself awaiting one, on the session to which the first
\* task's exchange has been appended meanwhile
C13_Witness ==
    /\ task[1].pc = "idle"
    /\ task[2].pc \in {"await_reg", "await_qr", "await_add"}
    /\ Len(heap[task[2].conversation].messages) = 2
    /\ heap[task[2].conversation].messages[1].content # task[2].request.message
    /\ response.status = "200"
    /\ response.conversation_id = heap[task[2].conversation].id

\* C14: the messages of every normal response are the last two entries of the
\* session's history as it is when the response is built, and these are the
\* message of the turn being answered and the reply to it, whatever other
\* turns are in flight on the conversation; current_agent of the response is
\* the origin label of that reply.
C14_ResponseShowsOwnExchange ==
    [][\A p \in Tasks :
          Completes(p) =>
              LET s == heap'[conversations'[response'.conversation_id]]
                  n == Len(s.messages)
              IN  /\ n >= 2
                  /\ response'.messages = <<s.messages[n - 1], s.messages[n]>>
                  /\ response'.messages[1] =
                         [content |-> task[p].request.message, agent |-> "User"]
                  /\ response'.messages[2] \in RepliesTo(task[p].request.message)
                  /\ response'.current_agent = response'.messages[2].agent
      ]_vars

\* the first task's turn was answered with its own exchange and the label
\* Schedule Agent while the second task, handed its request during that turn,
\* is awaiting add_business on the same conversation
C14_Witness ==
    /\ task[1].pc = "idle"
    /\ task[2].pc = "await_add"
    /\ response.status = "200"
    /\ response.conversation_id = heap[task[2].conversation].id
    /\ response.current_agent = "Schedule Agent"
    /\ response.messages[1].content = MsgBoth
    /\ response.messages[2].agent = "Schedule Agent"

\* the exchanges of every history: message, label of the reply, and the
\* session they are in
Exchanges(h) ==
    UNION {{[message |-> h[a].messages[i].content,
             agent |-> h[a].messages[i + 1].agent,
             session |-> a] :
               i \in {j \in 1..(Len(h[a].messages) - 1) : j % 2 = 1}} :
           a \in 1..Len(h)}

\* C19: the handler selected for a turn depends on the message alone: a turn
\* that completes ends with current_agent equal to the origin label of the
\* reply it appended; that label is the label of every reply the dispatcher
\* has for the message, and the one every earlier turn with the same message
\* got, in whatever session, with whatever history, active handler and
\* enrichment context.
C19_HandlerDependsOnMessageOnly ==
    [][\A p \in Tasks :
          Completes(p) =>
              LET s == heap'[conversations'[response'.conversation_id]]
                  label == s.messages[Len(s.messages)].agent
              IN  /\ response'.current_agent = label
                  /\ s.current_agent = label
                  /\ \A r \in RepliesTo(task[p].request.message) : r.agent = label
                  /\ \A e \in Exchanges(heap) :
                        e.message = task[p].request.message => e.agent = label
      ]_vars

\* one session holds the same message twice with the same label: answered
\* first on the new session (no history, Triage Agent active, no context: the
\* session was created by a request without account_number), and then with a
\* history, Networking Agent active and the context loaded
C19_Witness ==
    \E a \in 1..Len(heap) :
        /\ Len(heap[a].messages) = 4
        /\ heap[a].messages[1].content = MsgNetworking
        /\ heap[a].messages[3].content = MsgNetworking
        /\ heap[a].messages[2].agent = "Networking Agent"
        /\ heap[a].messages[4].agent = "Networking Agent"
        /\ heap[a].account_number = None
        /\ Truthy(heap[a].context.customer_id)

\* C20: in every state, every session's current_agent is Triage Agent,
\* Schedule Agent or Networking Agent; its history alternates an entry of
\* origin User and an entry of a handler origin, starting with User and ending
\* with a handler; and current_agent is the origin of the last entry, or Triage
\* Agent when the history is empty.
C20_SessionWellFormed ==
    \A a \in 1..Len(heap) :
        LET s == heap[a]
            n == Len(s.messages)
        IN  /\ s.current_agent \in HandlerNames
            /\ n % 2 = 0
            /\ \A i \in 1..n :
                  IF i % 2 = 1 THEN s.messages[i].agent = "User"
                  ELSE s.messages[i].agent \in HandlerNames
            /\ s.current_agent =
                   IF n = 0 THEN "Triage Agent" ELSE s.messages[n].agent

\* a session whose handler changed from Networking Agent to Schedule Agent
\* over two turns
C20_Witness ==
    \E a \in 1..Len(heap) :
        /\ Len(heap[a].messages) = 4
        /\ heap[a].messages[2].agent = "Networking Agent"
        /\ heap[a].messages[4].agent = "Schedule Agent"
        /\ heap[a].current_agent = "Schedule Agent"

\* the conditions of rules 1 to 6 of execute_networking_agent, in their order
NetworkingRuleHolds(k, message, context) ==
    LET message_lower == Lower(message)
        own == Contains(message_lower, <<"m","y"," ","b","u","s","i","n","e","s","s">>)
    IN  CASE k = 1 -> CreationCue(message_lower)
          [] k = 2 -> own /\ Truthy(Get(context, "customer_id", None))
          [] k = 3 -> /\ TruthyText(extract_person_name_from_message(message))
                      /\ (Contains(message_lower, <<"t","e","l","l">>) \/ Contains(message_lower, <<"a","b","o","u","t">>))
          [] k = 4 -> Contains(message_lower, <<"a","t","t","e","n","d","e","e">>)
          [] k = 5 -> /\ (\/ Contains(message_lower, <<"b","u","s","i","n","e","s","s">>)
                          \/ Contains(message_lower, <<"c","o","m","p","a","n","y">>)
                          \/ Contains(message_lower, <<"c","o","m","p","a","n","i","e","s">>))
                      /\ ~own
          [] k = 6 -> /\ Contains(message_lower, <<"o","r","g","a","n","i","z","a","t","i","o","n">>)
                      /\ Truthy(Get(context, "organization_id", None))

\* the collaborator operations of the handler of each rule
NetworkingRuleCalls ==
    <<{}, {"get_user_businesses"}, {"get_user_details_by_name"},
      {"get_all_attendees"}, {"search_businesses"},
      {"get_organization_details"}, {}>>

\* C15: execute_networking_agent answers by the first rule, in the order
\* creation sentinel, self-lookup, person lookup, attendee listing, general
\* business search, organization info, whose condition holds, and by the help
\* message when none holds: it makes at most one collaborator call, that of the
\* first rule's handler and none of a later rule, and it returns the help
\* message with no call exactly when no condition of rules 1 to 6 holds.
C15_FirstRuleWinsNoFallthrough ==
    Returned("execute_networking_agent") =>
        LET hold  == {k \in 1..6 :
                         NetworkingRuleHolds(k, agent.message, agent.context)}
            first == IF hold = {} THEN 7
                     ELSE CHOOSE k \in hold : \A j \in hold : k <= j
        IN  /\ Len(agent.calls) <= 1
            /\ {agent.calls[i].op : i \in 1..Len(agent.calls)}
                   = NetworkingRuleCalls[first]
            /\ first = 1 => agent.result = <<"DISPLAY_BUSINESS_FORM">>
            /\ (agent.result = NetworkingHelp /\ agent.calls = <<>>) <=> first = 7

\* a message with the cues of the person, attendee and business rules, from a
\* user with an organization, was answered by the person lookup alone
C15_Witness ==
    /\ Returned("execute_networking_agent")
    /\ agent.message = <<"T","e","l","l"," ","m","e"," ","a","b","o","u","t"," ","G","r","a","c","e"," ","H","o","p","p","e","r"," ","h","e","a","l","t","h","c","a","r","e"," ","c","o","m","p","a","n","i","e","s">>
    /\ Get(agent.context, "organization_id", None) = "O1"
    /\ Len(agent.calls) = 1
    /\ agent.calls[1].op = "get_user_details_by_name"

\* C16: when the lowercased message contains "about speaker" and no specific
\* speaker was resolved, execute_schedule_agent makes exactly one schedule
\* query, filtered by the date 2025-07-15 only (no speaker, topic, room or
\* track, and not the date of the message), and returns its text under the
\* heading of the speakers of July 15th, also when the message mentions
\* September.
C16_GenericSpeakerOverrideFirst ==
    (/\ Returned("execute_schedule_agent")
     /\ Contains(Lower(agent.message), <<"a","b","o","u","t"," ","s","p","e","a","k","e","r">>)
     /\ ~TruthyText(extract_speaker_from_message(agent.message)))
        => /\ agent.calls =
                  <<[op |-> "get_conference_schedule",
                     args |-> [speaker_name |-> NoneText, topic |-> None,
                               conference_room_name |-> None,
                               track_name |-> None,
                               conference_date |-> "2025-07-15"]]>>
           /\ Len(agent.result) >= 1
           /\ agent.result[1] = "Here are the speakers for July 15th, 2025:\n\n"
           /\ agent.result # OutOfRangeReply

\* a generic request about speakers that also mentions September was answered
\* with the query for July 15th; so was one that names a room and another date
C16_Witness ==
    /\ Returned("execute_schedule_agent")
    /\ agent.message \in
          {<<"w","h","a","t","'","s"," ","o","n"," ","S","e","p","t","e","m","b","e","r"," ","5","t","h"," ","T","e","l","l"," ","m","e"," ","a","b","o","u","t"," ","s","p","e","a","k","e","r","s">>,
           <<"T","e","l","l"," ","m","e"," ","a","b","o","u","t"," ","s","p","e","a","k","e","r","s"," ","w","h","a","t","'","s"," ","o","n"," ","S","e","p","t","e","m","b","e","r"," ","5","t","h">>}
    /\ Len(agent.calls) = 1
    /\ agent.calls[1].args.conference_date = "2025-07-15"

(***************************************************************************)
(* Properties of the capability handlers and of the routing core           *)
(***************************************************************************)
\* the collaborator operations each capability handler may call
HandlerOps ==
    [get_conference_schedule_tool |-> {"get_conference_schedule"},
     search_attendees_tool |-> {"get_user_details_by_name", "get_all_attendees"},
     search_businesses_tool |-> {"search_businesses"},
     get_user_businesses_tool |-> {"get_user_businesses"},
     add_business_tool |-> {"add_business"},
     get_organization_info_tool |-> {"get_organization_details"}]

\* a call of a capability handler has returned
HandlerReturned == agent.pc = "returned" /\ agent.fn \in DOMAIN HandlerOps

\* the handler's check of the arguments it was given fails: no user id for the
\* user-business lookup and the business add, no organization id for the
\* organization info, a date that is not a YYYY-MM-DD date for the schedule query
ArgumentCheckFails ==
    CASE agent.fn \in {"get_user_businesses_tool", "add_business_tool"} ->
             ~Truthy(agent.args.user_id)
      [] agent.fn = "get_organization_info_tool" ->
             ~Truthy(agent.args.organization_id)
      [] agent.fn = "get_conference_schedule_tool" ->
             /\ Truthy(agent.args.conference_date)
             /\ agent.args.conference_date \notin IsoDates
      [] OTHER -> FALSE

\* C17 as stated: every invocation of a capability handler calls exactly one
\* collaborator operation: never two, and never none.
C17_ExactlyOneCall ==
    HandlerReturned =>
        /\ Len(agent.calls) = 1
        /\ agent.calls[1].op \in HandlerOps[agent.fn]

\* C17 as amended: every invocation of a capability handler calls at most one
\* collaborator operation, one of its own; it calls none exactly when the
\* check of its arguments fails, and then it still returns a text.
C17_AtMostOneCall ==
    HandlerReturned =>
        /\ Len(agent.calls) <= 1
        /\ \A i \in 1..Len(agent.calls) : agent.calls[i].op \in HandlerOps[agent.fn]
        /\ agent.calls = <<>> <=> ArgumentCheckFails
        /\ agent.result \notin {<<>>, NoneText}

\* the user-business lookup was invoked with an empty user id and returned
\* its message without calling the collaborator
C17_Witness ==
    /\ HandlerReturned
    /\ agent.fn = "get_user_businesses_tool"
    /\ agent.args.user_id = ""
    /\ agent.calls = <<>>
    /\ agent.result = <<"No user specified and no current user context available.">>

\* C18: when the collaborator call of a capability handler or of an intent
\* router raises, the call returns a text message, which reports the fault,
\* and not the exception; when a lookup of load_user_context raises, the call
\* returns False and no session, hence no context field, has changed.
C18_CoreCatchesCollaboratorFaults ==
    [][/\ (/\ agent.pc # "returned"
           /\ agent'.pc = "returned"
           /\ agent'.calls # <<>>
           /\ agent'.db[agent'.calls[1].op] = Raise)
          => /\ agent'.result \notin {<<>>, NoneText, <<"<Exception>">>}
             /\ \E i \in 1..Len(agent'.result) : agent'.result[i] = FaultText
             /\ Len(agent'.calls) = 1
       /\ (/\ Len(loader'.outcomes) = Len(loader.outcomes) + 1
           /\ loader'.outcomes[Len(loader'.outcomes)] = "raise")
          => /\ loader'.pc = "returned"
             /\ loader'.ret = "False"
             /\ heap' = heap
             /\ conversations' = conversations
      ]_vars

\* execute_networking_agent returned the text of the business search whose
\* collaborator call raised
C18_Witness ==
    /\ Returned("execute_networking_agent")
    /\ agent.db = DbDown
    /\ Len(agent.calls) = 1
    /\ agent.calls[1].op = "search_businesses"
    /\ agent.result = <<"Error searching businesses: ", FaultText>>

(***************************************************************************)
(* Properties of the dispatcher: the loaded context, failed turns and the  *)
(* top-level classification                                                *)
(***************************************************************************)
\* C21: once the customer_id of a session's context is set (not None), no
\* step of any turn changes any field of that session's context: also not the
\* step of a turn that was already awaiting its identity lookup on the same
\* conversation when the customer_id was set.
C21_LoadedContextNeverChanges ==
    [][\A ref \in 1..Len(heap) :
          heap[ref].context.customer_id # None =>
              heap'[ref].context = heap[ref].context
      ]_vars

\* C22: a step that ends a turn with the internal error (status 500) changes
\* no session: message history, current_agent and context of every session
\* are as before the step, and the store is unchanged.  Over the whole turn,
\* the session the turn works on has, when the turn ends with the internal
\* error, the history, current_agent and context it had when the turn fetched
\* or created it, unless a step of another turn changed them in between.
\* Stated step by step: a turn ends with the internal error only from an
\* await of an identity lookup; the steps of such a turn are the one that
\* begins it (up to the first lookup), the one that resumes it after a miss of
\* the first lookup (up to the second) and the one that ends it; each of them
\* leaves every session of the store as it was, and the only change to the
\* store is the creation, by the beginning step, of one empty session under
\* an identifier the store did not hold.
C22_FailedTurnChangesNothing ==
    [][\A p \in Tasks :
          /\ (Ends(p) /\ response'.status = "500") =>
                /\ task[p].pc \in {"await_reg", "await_qr"}
                /\ heap' = heap
                /\ conversations' = conversations
          /\ (task'[p].pc = "await_qr" /\ task[p].pc # "await_qr") =>
                /\ task[p].pc = "await_reg"
                /\ heap' = heap
                /\ conversations' = conversations
          /\ (task'[p].pc = "await_reg" /\ task[p].pc # "await_reg") =>
                /\ task[p].pc = "received"
                /\ \A ref \in 1..Len(heap) : heap'[ref] = heap[ref]
                /\ \A cid \in DOMAIN conversations :
                      /\ cid \in DOMAIN conversations'
                      /\ conversations'[cid] = conversations[cid]
                /\ \/ heap' = heap /\ conversations' = conversations
                   \/ /\ Len(heap') = Len(heap) + 1
                      /\ task[p].request.conversation_id \notin DOMAIN conversations
                      /\ \E cid \in DOMAIN conversations' \ DOMAIN conversations :
                            /\ DOMAIN conversations' = DOMAIN conversations \cup {cid}
                            /\ conversations'[cid] = Len(heap')
                            /\ heap'[Len(heap')].id = cid
                      /\ heap'[Len(heap')].messages = <<>>
                      /\ heap'[Len(heap')].current_agent = "Triage Agent"
                      /\ heap'[Len(heap')].context = AirlineAgentContext
      ]_vars

\* of two turns on one session, the one that ended last ended with the
\* internal error: the session holds the exchange of the other turn and
\* nothing else, and its context is still unset
C22_Witness ==
    /\ started = 2
    /\ \A p \in Tasks : task[p].pc = "idle"
    /\ response.status = "500"
    /\ Len(heap) = 1
    /\ Len(heap[1].messages) = 2
    /\ heap[1].current_agent = "Schedule Agent"
    /\ heap[1].context = AirlineAgentContext

\* the handler the classification assigns to each message of the requests:
\* the marker of a structured submission first, then the schedule keyword
\* set, then the networking keyword set, each keyword sought in the
\* lower-cased message
AssignedHandler ==
    [message \in ApiMessages |->
        LET schedule   == \E k \in 1..Len(ScheduleWords) :
                              Contains(Lower(message), ScheduleWords[k])
            networking == \E k \in 1..Len(NetworkingWords) :
                              Contains(Lower(message), NetworkingWords[k])
        IN  IF Contains(message, FormMarker) THEN "Networking Agent"
            ELSE IF schedule THEN "Schedule Agent"
            ELSE IF networking THEN "Networking Agent"
            ELSE "Triage Agent"]

\* C23: when a turn completes, the reply appended for its message carries the
\* label, and the session and the response the current_agent, that the
\* classification assigns to the message: Networking Agent for a message
\* that contains the marker of a structured submission, whatever keywords it
\* contains; otherwise Schedule Agent for a message with a keyword of the
\* schedule set, also when it has a keyword of the networking set as well;
\* otherwise Networking Agent for a message with a keyword of the networking
\* set; otherwise Triage Agent.
C23_ScheduleKeywordsTestedFirst ==
    [][\A p \in Tasks :
          Completes(p) =>
              LET s == heap'[conversations'[response'.conversation_id]]
                  n == Len(s.messages)
                  handler == AssignedHandler[task[p].request.message]
              IN  /\ s.messages[n - 1].content = task[p].request.message
                  /\ s.messages[n].agent = handler
                  /\ s.current_agent = handler
                  /\ response'.current_agent = handler
      ]_vars

\* a submission that holds a schedule keyword was answered under the label
\* Networking Agent, and a message with a keyword of both sets under the
\* label Schedule Agent
C23_Witness ==
    /\ \E a \in 1..Len(heap) : \E i \in 1..Len(heap[a].messages) :
          /\ heap[a].messages[i].content = MsgFormNoLabel
          /\ AnyWordIn(ScheduleWords, Lower(MsgFormNoLabel))
          /\ i < Len(heap[a].messages)
          /\ heap[a].messages[i + 1].agent = "Networking Agent"
    /\ \E a \in 1..Len(heap) : \E i \in 1..Len(heap[a].messages) :
          /\ heap[a].messages[i].content = MsgBoth
          /\ AnyWordIn(NetworkingWords, Lower(MsgBoth))
          /\ i < Len(heap[a].messages)
          /\ heap[a].messages[i + 1].agent = "Schedule Agent"

=============================================================================
